---------------------------- MODULE Spec2Model ----------------------------
(***************************************************************************)
(* Fieldpay debugging scripts, modelled as state machines.                 *)
(*                                                                         *)
(* Every script of the repository is an independent one-shot program, so   *)
(* each has its own specification over the shared variables `script`,      *)
(* `pc`, `output` and `exit_status`:                                       *)
(*                                                                         *)
(*   SpecCreds    set_netsuite_credentials.py                              *)
(*   SpecApi      debug_netsuite_api.py, quick_test.py                     *)
(*   SpecUrl      test_oauth_url.py                                        *)
(*   SpecMonitor  debug_oauth.py, debug_userdefaults.py                    *)
(*   SpecSave     test_save_settings.py                                    *)
(*                                                                         *)
(* SpecValidate runs validate_url of test_oauth_url.py alone, on URLs of   *)
(* any origin; FairSpecApi and FairSpecSave add the progress of the        *)
(* script's thread to SpecApi and SpecSave.                                *)
(*                                                                         *)
(* Python strings are TLA+ strings (TLC evaluates Len, \o and SubSeq on    *)
(* them); a printed line is the string print() receives, without the       *)
(* decorative emoji and leading newlines of the source's literals.         *)
(***************************************************************************)
EXTENDS Integers, Sequences, FiniteSets, TLC

VARIABLES
    script,         \* the script the engineer invoked
    pc,             \* the position of the script's single thread
    output,         \* the lines printed to stdout so far
    exit_status,    \* "running", or the process's exit status ("0", "1")
    \* ---- set_netsuite_credentials.py, test_save_settings.py
    key_index,      \* position of the loop over the keys to write
    commands,       \* the xcrun commands issued so far, with their outcome
    userdefaults,   \* the simulator's Fieldpay.fieldpay domain: <<key, value>> pairs
    verify_lines,   \* lines of the `defaults read` output not yet looked at
    success,        \* what set_netsuite_credentials returned: "True", "False" ("none" before)
    \* ---- debug_netsuite_api.py, quick_test.py
    typed,          \* what the engineer types at the two prompts: [account, token]
    prompts,        \* the input() prompts shown so far
    account_id,     \* the local variables of the same names
    access_token,
    requests,       \* the GET requests issued so far: [url, outcome]
    \* ---- test_oauth_url.py
    args,           \* the arguments of build_authorization_url
    tape,           \* what the secrets module and time.time() will deliver
    code_verifier,  \* the values build_authorization_url returned ("" before)
    state,
    auth_url,
    validation,     \* the tuple validate_url returned (<<>> before)
    \* ---- debug_oauth.py, debug_userdefaults.py
    process,        \* the log-stream subprocess: "none", "running", "blocked",
                    \* "exited" or "terminated"
    pending,        \* the write the subprocess is blocked in: <<fd, data>> (<<>> if none)
    stdout_pipe,    \* the lines written to the stdout pipe and not yet read
    stderr_pipe,    \* the chunks written to the stderr pipe (nothing reads them)
    last_line,      \* the local `line`: what readline() returned last
    writes,         \* how many writes the subprocess has started
    checks,         \* the subprocess.run calls of main's checks, with what they gave
    uncaught        \* the exception that left the script uncaught ("" if none)

commonVars == <<script, pc, output, exit_status>>
credsVars  == <<key_index, commands, userdefaults, verify_lines, success>>
apiVars    == <<typed, prompts, account_id, access_token, requests>>
urlVars    == <<args, tape, code_verifier, state, auth_url, validation>>
monVars    == <<process, pending, stdout_pipe, stderr_pipe, last_line, writes,
                 checks, uncaught>>
vars       == <<commonVars, credsVars, apiVars, urlVars, monVars>>

\* What the actions of one script leave alone: the variables of the others.
notCredsVars == <<apiVars, urlVars, monVars>>
notApiVars   == <<credsVars, urlVars, monVars>>
notUrlVars   == <<credsVars, apiVars, monVars>>
notMonVars   == <<credsVars, apiVars, urlVars>>

(***************************************************************************)
(* Strings                                                                 *)
(***************************************************************************)

\* ''.join(f[i] for i in lo..hi), by halves so that long strings nest shallowly.
RECURSIVE Concat(_, _, _)
Concat(f, lo, hi) ==
    IF lo > hi THEN ""
    ELSE IF lo = hi THEN f[lo]
    ELSE LET mid == (lo + hi) \div 2
         IN  Concat(f, lo, mid) \o Concat(f, mid + 1, hi)

\* s[i:j] of Python for 0 <= i <= j (the slice is cut at the end of s).
Slice(s, i, j) == SubSeq(s, i + 1, IF j < Len(s) THEN j ELSE Len(s))

\* The character at 1-based position i, as a string of length 1.
CharAt(s, i) == SubSeq(s, i, i)

\* s.startswith(prefix)
StartsWith(s, prefix) ==
    Len(s) >= Len(prefix) /\ SubSeq(s, 1, Len(prefix)) = prefix

\* `needle in hay` of Python.
Contains(hay, needle) ==
    \E i \in 1..(Len(hay) - Len(needle) + 1) :
        SubSeq(hay, i, i + Len(needle) - 1) = needle

\* hay.find(needle) + 1: the 1-based position of the first occurrence, or 0.
Find(hay, needle) ==
    IF Contains(hay, needle)
    THEN CHOOSE i \in 1..(Len(hay) - Len(needle) + 1) :
            /\ SubSeq(hay, i, i + Len(needle) - 1) = needle
            /\ \A j \in 1..(i - 1) : SubSeq(hay, j, j + Len(needle) - 1) # needle
    ELSE 0

\* The characters str.strip() removes (the ASCII ones a terminal or a pipe delivers).
Whitespace == {" ", "\t", "\n", "\r"}

RECURSIVE LStrip(_)
LStrip(s) ==
    IF Len(s) > 0 /\ CharAt(s, 1) \in Whitespace THEN LStrip(Tail(s)) ELSE s

RECURSIVE RStrip(_)
RStrip(s) ==
    IF Len(s) > 0 /\ CharAt(s, Len(s)) \in Whitespace
    THEN RStrip(SubSeq(s, 1, Len(s) - 1))
    ELSE s

\* str.strip()
Strip(s) == LStrip(RStrip(s))

\* s.split(sep) for a separator of one character: the sequence of the parts.
RECURSIVE Split(_, _)
Split(s, sep) ==
    LET i == Find(s, sep)
    IN  IF i = 0
        THEN <<s>>
        ELSE <<SubSeq(s, 1, i - 1)>> \o Split(SubSeq(s, i + 1, Len(s)), sep)

UpperCase == "ABCDEFGHIJKLMNOPQRSTUVWXYZ"
LowerCase == "abcdefghijklmnopqrstuvwxyz"

\* The lower-case letter of every upper-case letter.
ToLower ==
    [c \in {SubSeq(UpperCase, i, i) : i \in 1..Len(UpperCase)} |->
        LET i == CHOOSE j \in 1..Len(UpperCase) : SubSeq(UpperCase, j, j) = c
        IN  SubSeq(LowerCase, i, i)]

\* str.lower() on ASCII text.
Lower(s) ==
    Concat([k \in 1..Len(s) |->
              LET c == CharAt(s, k)
              IN  IF c \in DOMAIN ToLower THEN ToLower[c] ELSE c], 1, Len(s))

Digits == "0123456789"

\* str(n) for a natural number n.
RECURSIVE ToStr(_)
ToStr(n) ==
    IF n < 10
    THEN CharAt(Digits, n + 1)
    ELSE ToStr(n \div 10) \o CharAt(Digits, (n % 10) + 1)

\* sep.join(parts)
Join(parts, sep) ==
    Concat([i \in 1..Len(parts) |-> IF i = 1 THEN parts[i] ELSE sep \o parts[i]],
           1, Len(parts))

\* repr() of a list of strings that hold no quote or backslash.
ReprList(xs) ==
    "[" \o Join([i \in 1..Len(xs) |-> "'" \o xs[i] \o "'"], ", ") \o "]"

(***************************************************************************)
(* set_netsuite_credentials.py                                             *)
(***************************************************************************)

\* The credentials dict, in its insertion order (the order .items() yields).
credentials == <<
    <<"netsuite_client_id",
      "2ada1369bdb25a146faf520ddfd9c88517b2e2a7d09383e2dc0c30e183ebb352">>,
    <<"netsuite_client_secret",
      "51cdefe493f171a859fa6be75add7daab5d7b8b6da16f2f2bfbf1249d51fa71b">>,
    <<"netsuite_account_id", "tstdrv1870144">>,
    <<"netsuite_redirect_uri", "fieldpay://callback">> >>

credential_keys == [i \in 1..Len(credentials) |-> credentials[i][1]]

\* How many characters of a value the script shows: value[:10].
MaskLen == 10

\* cmd of the write loop.
write_cmd(key, value) ==
    <<"xcrun", "simctl", "spawn", "iPhone 16",
      "defaults", "write", "Fieldpay.fieldpay", key, value>>

verify_cmd ==
    <<"xcrun", "simctl", "spawn", "iPhone 16", "defaults", "read", "Fieldpay.fieldpay">>

\* str(e) of subprocess.CalledProcessError: the command and its exit status.
CalledProcessErrorStr(cmd, returncode) ==
    "Command '" \o ReprList(cmd) \o "' returned non-zero exit status "
        \o ToStr(returncode) \o "."

\* `defaults write domain key value` on the domain's contents.
DefaultsWrite(domain, key, value) ==
    IF \E i \in 1..Len(domain) : domain[i][1] = key
    THEN [i \in 1..Len(domain) |->
            IF domain[i][1] = key THEN <<key, value>> ELSE domain[i]]
    ELSE Append(domain, <<key, value>>)

\* A plist string is printed bare when it is alphanumeric, quoted otherwise.
BareChars ==
    "abcdefghijklmnopqrstuvwxyzABCDEFGHIJKLMNOPQRSTUVWXYZ0123456789_"

PlistString(s) ==
    IF Len(s) > 0 /\ \A i \in 1..Len(s) : Contains(BareChars, CharAt(s, i))
    THEN s
    ELSE "\"" \o s \o "\""

\* The stdout of `defaults read domain`, as result.stdout.split('\n') sees it.
DefaultsReadLines(domain) ==
    <<"{">>
    \o [i \in 1..Len(domain) |->
            "    " \o PlistString(domain[i][1]) \o " = "
                   \o PlistString(domain[i][2]) \o ";"]
    \o <<"}", "">>

\* The variables of the API scripts while another script runs.
ApiIdle ==
    /\ typed = [account |-> "", token |-> ""]
    /\ prompts = <<>>
    /\ account_id = ""
    /\ access_token = ""
    /\ requests = <<>>

\* The variables of test_oauth_url.py while another script runs.
UrlIdle ==
    /\ args = [account_id |-> "", client_id |-> "", redirect_uri |-> ""]
    /\ tape = [first |-> 0, step |-> 0, now |-> 0]
    /\ code_verifier = ""
    /\ state = ""
    /\ auth_url = ""
    /\ validation = <<>>

\* The variables of the two log monitors while another script runs.
MonIdle ==
    /\ process = "none"
    /\ pending = <<>>
    /\ stdout_pipe = <<>>
    /\ stderr_pipe = 0
    /\ last_line = ""
    /\ writes = 0
    /\ checks = <<>>
    /\ uncaught = ""

\* What the domain may hold before the script runs.
PriorDomains == {
    <<>>,
    <<<<"test_setting", "test_value">>>>,
    <<<<"netsuite_client_secret", "old=secret=value">>>>,
    <<<<"netsuite_access_token", "tok">>, <<"netsuite_client_id", "stale">>>> }

\* Exit statuses and stderr texts of a failing `defaults` command.
FailCodes == {1, 2}
FailStderr == {"", "Could not write domain Fieldpay.fieldpay"}

InitCreds ==
    /\ script = "set_netsuite_credentials"
    /\ pc = "write_loop"
    /\ output = <<"NetSuite Credentials Setup Tool",
                  "Setting NetSuite OAuth Credentials",
                  "Setting NetSuite credentials in UserDefaults...">>
    /\ exit_status = "running"
    /\ key_index = 1
    /\ commands = <<>>
    /\ userdefaults \in PriorDomains
    /\ verify_lines = <<>>
    /\ success = "none"
    /\ ApiIdle
    /\ UrlIdle
    /\ MonIdle

\* Line 29: the value's first characters and its length.
SettingLine(key, value) ==
    "   Setting " \o key \o ": " \o Slice(value, 0, MaskLen) \o "... (length: "
        \o ToStr(Len(value)) \o ")"

\* Lines 42-43: what the except branch of the write loop prints.
WriteFailedLines(key, cmd, returncode, stderr) ==
    << "   Failed to set " \o key \o ": " \o CalledProcessErrorStr(cmd, returncode),
       "   Error output: " \o stderr >>

\* One iteration of the write loop whose `defaults write` succeeds.
WriteSucceeds ==
    /\ pc = "write_loop"
    /\ key_index <= Len(credentials)
    /\ LET key   == credentials[key_index][1]
           value == credentials[key_index][2]
       IN  /\ commands' = Append(commands,
                 [cmd |-> write_cmd(key, value), op |-> "write", key |-> key,
                  outcome |-> "ok"])
           /\ userdefaults' = DefaultsWrite(userdefaults, key, value)
           /\ output' = output \o
                 << SettingLine(key, value), "   " \o key \o " set successfully" >>
    /\ key_index' = key_index + 1
    /\ UNCHANGED <<script, pc, exit_status, verify_lines, success>>
    /\ UNCHANGED notCredsVars

\* Mutant of WriteFails: the handler prints the error and the loop goes on.
WriteFailsContinues ==
    /\ pc = "write_loop"
    /\ key_index <= Len(credentials)
    /\ \E rc \in FailCodes, stderr \in FailStderr :
        LET key   == credentials[key_index][1]
            value == credentials[key_index][2]
            cmd   == write_cmd(key, value)
        IN  /\ commands' = Append(commands,
                  [cmd |-> cmd, op |-> "write", key |-> key,
                   outcome |-> "CalledProcessError"])
            /\ output' = output \o <<SettingLine(key, value)>>
                            \o WriteFailedLines(key, cmd, rc, stderr)
    /\ key_index' = key_index + 1
    /\ UNCHANGED <<script, pc, exit_status, userdefaults, verify_lines, success>>
    /\ UNCHANGED notCredsVars

\* One iteration whose `defaults write` exits non-zero: check=True raises
\* CalledProcessError, the handler prints it and returns False.
WriteFails ==
    /\ pc = "write_loop"
    /\ key_index <= Len(credentials)
    /\ \E rc \in FailCodes, stderr \in FailStderr :
        LET key   == credentials[key_index][1]
            value == credentials[key_index][2]
            cmd   == write_cmd(key, value)
        IN  /\ commands' = Append(commands,
                  [cmd |-> cmd, op |-> "write", key |-> key,
                   outcome |-> "CalledProcessError"])
            /\ output' = output \o <<SettingLine(key, value)>>
                            \o WriteFailedLines(key, cmd, rc, stderr)
    /\ success' = "False"
    /\ pc' = "returned"
    /\ UNCHANGED <<script, exit_status, key_index, userdefaults, verify_lines>>
    /\ UNCHANGED notCredsVars

\* subprocess.run itself raises (xcrun is not installed: FileNotFoundError), which
\* no handler of the script catches: the interpreter exits with status 1.
WriteRaises ==
    /\ pc = "write_loop"
    /\ key_index <= Len(credentials)
    /\ LET key   == credentials[key_index][1]
           value == credentials[key_index][2]
       IN  /\ commands' = Append(commands,
                 [cmd |-> write_cmd(key, value), op |-> "write", key |-> key,
                  outcome |-> "OSError"])
           /\ output' = Append(output, SettingLine(key, value))
    /\ pc' = "crashed"
    /\ exit_status' = "1"
    /\ UNCHANGED <<script, key_index, userdefaults, verify_lines, success>>
    /\ UNCHANGED notCredsVars

\* Lines 46-57: the loop is over, `defaults read` succeeds.
VerifySucceeds ==
    /\ pc = "write_loop"
    /\ key_index > Len(credentials)
    /\ commands' = Append(commands,
          [cmd |-> verify_cmd, op |-> "read", key |-> "", outcome |-> "ok"])
    /\ verify_lines' = DefaultsReadLines(userdefaults)
    /\ output' = output \o
          << "All NetSuite credentials set successfully!",
             "Verifying credentials...",
             "Current UserDefaults contents:" >>
    /\ pc' = "verify_loop"
    /\ UNCHANGED <<script, exit_status, key_index, userdefaults, success>>
    /\ UNCHANGED notCredsVars

\* Lines 46-56, 81-83: `defaults read` exits non-zero.
VerifyFails ==
    /\ pc = "write_loop"
    /\ key_index > Len(credentials)
    /\ \E rc \in FailCodes :
        /\ commands' = Append(commands,
              [cmd |-> verify_cmd, op |-> "read", key |-> "",
               outcome |-> "CalledProcessError"])
        /\ output' = output \o
              << "All NetSuite credentials set successfully!",
                 "Verifying credentials...",
                 "Failed to verify credentials: "
                     \o CalledProcessErrorStr(verify_cmd, rc) >>
    /\ success' = "False"
    /\ pc' = "returned"
    /\ UNCHANGED <<script, exit_status, key_index, userdefaults, verify_lines>>
    /\ UNCHANGED notCredsVars

\* Lines 61-70: what the verification loop prints for one line of the output.
VerifyLinePrints(line) ==
    IF \E i \in 1..Len(credential_keys) : Contains(line, credential_keys[i])
    THEN IF Contains(line, "netsuite_client_secret")
         THEN LET parts == Split(line, "=")
              IN  IF Len(parts) = 2
                  THEN LET value == Strip(parts[2])
                           masked_value ==
                               IF Len(value) > MaskLen
                               THEN Slice(value, 0, MaskLen) \o "..."
                               ELSE value
                       IN  <<"   " \o Strip(parts[1]) \o " = " \o masked_value>>
                  ELSE <<>>
         ELSE <<"   " \o line>>
    ELSE <<>>

\* One iteration of `for line in output.split('\n')`.
VerifyLine ==
    /\ pc = "verify_loop"
    /\ Len(verify_lines) > 0
    /\ output' = output \o VerifyLinePrints(Head(verify_lines))
    /\ verify_lines' = Tail(verify_lines)
    /\ UNCHANGED <<script, pc, exit_status, key_index, commands, userdefaults, success>>
    /\ UNCHANGED notCredsVars

\* Lines 72-79: the loop is over; the next steps are printed and True returned.
VerifyDone ==
    /\ pc = "verify_loop"
    /\ Len(verify_lines) = 0
    /\ output' = output \o
          << "NetSuite credentials are now ready for OAuth testing!",
             "Next steps:",
             "1. Run the FieldPay app",
             "2. Go to Settings",
             "3. Click 'Connect to NetSuite'",
             "4. Complete the OAuth flow" >>
    /\ success' = "True"
    /\ pc' = "returned"
    /\ UNCHANGED <<script, exit_status, key_index, commands, userdefaults, verify_lines>>
    /\ UNCHANGED notCredsVars

\* Lines 89-95: the script reports the result and exits.
CredsMainExit ==
    /\ script = "set_netsuite_credentials"
    /\ pc = "returned"
    /\ IF success = "True"
       THEN /\ output' = Append(output, "Setup completed successfully!")
            /\ exit_status' = "0"
       ELSE /\ output' = Append(output, "Setup failed!")
            /\ exit_status' = "1"
    /\ pc' = "exited"
    /\ UNCHANGED <<script, credsVars>>
    /\ UNCHANGED notCredsVars

NextCreds ==
    \/ WriteSucceeds
    \/ WriteFails
    \/ WriteRaises
    \/ VerifySucceeds
    \/ VerifyFails
    \/ VerifyLine
    \/ VerifyDone
    \/ CredsMainExit

SpecCreds == InitCreds /\ [][NextCreds]_vars

(***************************************************************************)
(* Claims about set_netsuite_credentials.py                                *)
(***************************************************************************)

\* The four keys in the order the claim states them.
ClaimedKeyOrder ==
    <<"netsuite_client_id", "netsuite_client_secret",
      "netsuite_account_id", "netsuite_redirect_uri">>

\* C1: the writes are issued for netsuite_client_id, netsuite_client_secret,
\* netsuite_account_id, netsuite_redirect_uri in that order, then the `defaults
\* read`; True is returned (and 'Setup completed successfully!' reported with exit
\* status 0) only if all four writes and the read succeeded; the first write that
\* fails with CalledProcessError makes the function return False, is the last
\* command issued, and the script exits with status 1.
C1_WriteOrderAndResult ==
    /\ Len(commands) <= Len(ClaimedKeyOrder) + 1
    /\ \A i \in 1..Len(commands) :
        IF i <= Len(ClaimedKeyOrder)
        THEN commands[i].op = "write" /\ commands[i].key = ClaimedKeyOrder[i]
        ELSE commands[i].op = "read"
    /\ (success = "True") =>
          /\ Len(commands) = Len(ClaimedKeyOrder) + 1
          /\ \A i \in 1..Len(commands) : commands[i].outcome = "ok"
    /\ (exit_status = "0") <=>
          (\E i \in 1..Len(output) : output[i] = "Setup completed successfully!")
    /\ (exit_status = "0") => (success = "True")
    /\ \A i \in 1..Len(commands) :
        (commands[i].op = "write" /\ commands[i].outcome = "CalledProcessError") =>
            /\ i = Len(commands)
            /\ success = "False"
            /\ exit_status \in {"running", "1"}
            /\ (pc = "exited" => exit_status = "1")

\* C1 witness: the third write failed after two that succeeded, and the script
\* has exited with status 1.
C1_Witness ==
    /\ pc = "exited"
    /\ Len(commands) = 3
    /\ commands[2].outcome = "ok"
    /\ commands[3].outcome = "CalledProcessError"
    /\ exit_status = "1"

\* A line shows more of the secret than its first MaskLen characters when it holds
\* MaskLen + 1 consecutive characters of it.
ShowsSecret(line) ==
    LET secret == "51cdefe493f171a859fa6be75add7daab5d7b8b6da16f2f2bfbf1249d51fa71b"
    IN  \E i \in 1..(Len(secret) - MaskLen) :
            Contains(line, SubSeq(secret, i, i + MaskLen))

\* C2: no line of output contains more than the first 10 characters of the
\* netsuite_client_secret value, on any path.
C2_SecretMasked == \A i \in 1..Len(output) : ~ShowsSecret(output[i])

(***************************************************************************)
(* debug_netsuite_api.py and quick_test.py                                 *)
(***************************************************************************)

\* The variables of set_netsuite_credentials.py while another script runs.
CredsIdle ==
    /\ key_index = 0
    /\ commands = <<>>
    /\ userdefaults = <<>>
    /\ verify_lines = <<>>
    /\ success = "none"

\* The strings over the characters of `chars` of length at most n.
RECURSIVE StringsUpTo(_, _)
StringsUpTo(chars, n) ==
    IF n = 0
    THEN {""}
    ELSE LET shorter == StringsUpTo(chars, n - 1)
         IN  shorter \cup {s \o CharAt(chars, i) : s \in shorter, i \in 1..Len(chars)}

\* What the engineer may type at a prompt: blanks and a visible character.
InputChars == " a"
MaxInputLen == 2
TypedStrings == StringsUpTo(InputChars, MaxInputLen)

\* What requests.get may do: return a response (a status code and a body that is
\* JSON or not), or raise a RequestException (Timeout is one of them).
StatusCodes == {401, 403, 500}
GetOutcomes ==
    [kind : {"response"}, status : {200}, body : {"json", "text"}]
    \cup [kind : {"response"}, status : StatusCodes, body : {"text"}]
    \cup [kind : {"RequestException", "Timeout"}, status : {0}, body : {"Connection refused"}]

\* What the GET of Test 2 and of Test 3 may give besides: a 200 response whose
\* JSON is {"items": 5}, an object whose 'items' has no length.
ItemsNotSized == "{\"items\": 5}"
RecordOutcomes ==
    GetOutcomes \cup [kind : {"response"}, status : {200}, body : {ItemsNotSized}]

\* Lines 81-89 (123-131) for the response {"items": 5}: what is printed before
\* len(data['items']) raises the TypeError, and lines 186-187 of main, which
\* catches it.
TypeErrorLines(name) ==
    <<"Response Status: 200", name \o " successful!",
      "Response structure: ['items']",
      "Unexpected error: object of type 'int' has no len()">>

\* The entry of the request log for a GET of url with outcome o.
Issued(url, o) == [url |-> url, outcome |-> o.kind, status |-> o.status]

InitApi ==
    /\ script \in {"debug_netsuite_api", "quick_test"}
    /\ pc = IF script = "debug_netsuite_api" THEN "config" ELSE "input_account"
    /\ output = IF script = "debug_netsuite_api"
                THEN <<"Starting NetSuite API Debug...", "NetSuite API Debug Script",
                       "Configuration:">>
                ELSE <<"Quick NetSuite API Test (OAuth 2.0)">>
    /\ exit_status = "running"
    /\ typed \in [account : TypedStrings, token : TypedStrings]
    /\ prompts = <<>>
    /\ account_id = ""
    /\ access_token = ""
    /\ requests = <<>>
    /\ CredsIdle
    /\ UrlIdle
    /\ MonIdle

\* debug_netsuite_api.py line 27
base_url(account) == "https://" \o account \o ".suitetalk.api.netsuite.com"

\* Mutant of ApiReadConfig: `and` in place of `or` in the credentials check.
ApiReadConfigAnd ==
    /\ script = "debug_netsuite_api"
    /\ pc = "config"
    /\ prompts' = prompts \o <<"Enter your NetSuite Account ID: ",
                               "Enter your NetSuite Access Token: ">>
    /\ account_id' = Strip(typed.account)
    /\ access_token' = Strip(typed.token)
    /\ IF account_id' = "" /\ access_token' = ""
       THEN /\ output' = Append(output, "Error: Account ID and Access Token are required")
            /\ pc' = "returned"
       ELSE /\ output' = output \o
                  << "Base URL: " \o base_url(account_id'),
                     "Access Token: " \o Slice(access_token', 0, 20) \o "..." >>
            /\ pc' = "test1"
    /\ UNCHANGED <<script, exit_status, typed, requests>>
    /\ UNCHANGED notApiVars

\* Lines 20-30: both prompts are read, then the credentials are checked.
ApiReadConfig ==
    /\ script = "debug_netsuite_api"
    /\ pc = "config"
    /\ prompts' = prompts \o <<"Enter your NetSuite Account ID: ",
                               "Enter your NetSuite Access Token: ">>
    /\ account_id' = Strip(typed.account)
    /\ access_token' = Strip(typed.token)
    /\ IF account_id' = "" \/ access_token' = ""
       THEN /\ output' = Append(output, "Error: Account ID and Access Token are required")
            /\ pc' = "returned"
       ELSE /\ output' = output \o
                  << "Base URL: " \o base_url(account_id'),
                     "Access Token: " \o Slice(access_token', 0, 20) \o "..." >>
            /\ pc' = "test1"
    /\ UNCHANGED <<script, exit_status, typed, requests>>
    /\ UNCHANGED notApiVars

\* What a test prints for a response: the status, then the branch on 200.
ResponseLines(name, o) ==
    <<"Response Status: " \o ToStr(o.status)>> \o
    IF o.status = 200
    THEN <<name \o " successful!",
           IF o.body = "json" THEN "Response data: " \o o.body
                              ELSE "Response is not valid JSON: " \o o.body>>
    ELSE <<name \o " failed with status " \o ToStr(o.status),
           "Error response: " \o o.body>>

\* Mutant of ApiTest1: the handler of Test 1 prints and falls through to Test 2.
ApiTest1FallsThrough ==
    /\ script = "debug_netsuite_api"
    /\ pc = "test1"
    /\ \E o \in GetOutcomes :
        LET test_url == base_url(account_id) \o "/services/rest/record/v1/customer?limit=1"
        IN  /\ requests' = Append(requests, Issued(test_url, o))
            /\ output' = output \o
                  <<"Test 1: Connection Test", "Making request to: " \o test_url>>
                  \o IF o.kind = "response"
                     THEN ResponseLines("Connection", o)
                     ELSE <<"Request failed: " \o o.body>>
    /\ pc' = "test2"
    /\ UNCHANGED <<script, exit_status, typed, prompts, account_id, access_token>>
    /\ UNCHANGED notApiVars

\* Lines 32-63, Test 1: a RequestException is printed and the function returns.
ApiTest1 ==
    /\ script = "debug_netsuite_api"
    /\ pc = "test1"
    /\ \E o \in GetOutcomes :
        LET test_url == base_url(account_id) \o "/services/rest/record/v1/customer?limit=1"
        IN  /\ requests' = Append(requests, Issued(test_url, o))
            /\ IF o.kind = "response"
               THEN /\ output' = output \o
                          <<"Test 1: Connection Test", "Making request to: " \o test_url>>
                          \o ResponseLines("Connection", o)
                    /\ pc' = "test2"
               ELSE /\ output' = output \o
                          <<"Test 1: Connection Test", "Making request to: " \o test_url,
                            "Request failed: " \o o.body>>
                    /\ pc' = "returned"
    /\ UNCHANGED <<script, exit_status, typed, prompts, account_id, access_token>>
    /\ UNCHANGED notApiVars

\* Mutant of ApiTest2: a status other than 200 makes the test send its GET again.
ApiTest2Retries ==
    /\ script = "debug_netsuite_api"
    /\ pc = "test2"
    /\ \E o \in RecordOutcomes :
        LET customer_url == base_url(account_id) \o "/services/rest/record/v1/customer"
        IN  /\ requests' = Append(requests, Issued(customer_url, o))
            /\ output' = output \o
                  <<"Test 2: Customer Endpoint", "Making request to: " \o customer_url>>
                  \o IF o.body = ItemsNotSized
                     THEN TypeErrorLines("Customer endpoint")
                     ELSE IF o.kind = "response"
                     THEN ResponseLines("Customer endpoint", o)
                     ELSE <<"Request failed: " \o o.body>>
            /\ pc' = IF o.body = ItemsNotSized THEN "returned"
                     ELSE IF o.kind = "response" /\ o.status # 200 THEN "test2"
                     ELSE "test3"
    /\ UNCHANGED <<script, exit_status, typed, prompts, account_id, access_token>>
    /\ UNCHANGED notApiVars

\* Lines 65-105, Test 2: a RequestException is printed and Test 3 follows; the
\* TypeError of a response without a sized 'items' leaves the function.
ApiTest2 ==
    /\ script = "debug_netsuite_api"
    /\ pc = "test2"
    /\ \E o \in RecordOutcomes :
        LET customer_url == base_url(account_id) \o "/services/rest/record/v1/customer"
        IN  /\ requests' = Append(requests, Issued(customer_url, o))
            /\ output' = output \o
                  <<"Test 2: Customer Endpoint", "Making request to: " \o customer_url>>
                  \o IF o.body = ItemsNotSized
                     THEN TypeErrorLines("Customer endpoint")
                     ELSE IF o.kind = "response"
                     THEN ResponseLines("Customer endpoint", o)
                     ELSE <<"Request failed: " \o o.body>>
            /\ pc' = IF o.body = ItemsNotSized THEN "returned" ELSE "test3"
    /\ UNCHANGED <<script, exit_status, typed, prompts, account_id, access_token>>
    /\ UNCHANGED notApiVars

\* A Test 3 whose handler returns after printing, as that of Test 1 does.
ApiTest3Returns ==
    /\ script = "debug_netsuite_api"
    /\ pc = "test3"
    /\ \E o \in RecordOutcomes :
        LET invoice_url == base_url(account_id) \o "/services/rest/record/v1/invoice"
        IN  /\ requests' = Append(requests, Issued(invoice_url, o))
            /\ output' = output \o
                  <<"Test 3: Invoice Endpoint", "Making request to: " \o invoice_url>>
                  \o IF o.body = ItemsNotSized
                     THEN TypeErrorLines("Invoice endpoint")
                     ELSE IF o.kind = "response"
                     THEN ResponseLines("Invoice endpoint", o)
                     ELSE <<"Request failed: " \o o.body>>
            /\ pc' = IF o.body = ItemsNotSized \/ o.kind # "response" THEN "returned"
                     ELSE "test4"
    /\ UNCHANGED <<script, exit_status, typed, prompts, account_id, access_token>>
    /\ UNCHANGED notApiVars

\* Lines 107-147, Test 3: a RequestException is printed and Test 4 follows; the
\* TypeError of a response without a sized 'items' leaves the function.
ApiTest3 ==
    /\ script = "debug_netsuite_api"
    /\ pc = "test3"
    /\ \E o \in RecordOutcomes :
        LET invoice_url == base_url(account_id) \o "/services/rest/record/v1/invoice"
        IN  /\ requests' = Append(requests, Issued(invoice_url, o))
            /\ output' = output \o
                  <<"Test 3: Invoice Endpoint", "Making request to: " \o invoice_url>>
                  \o IF o.body = ItemsNotSized
                     THEN TypeErrorLines("Invoice endpoint")
                     ELSE IF o.kind = "response"
                     THEN ResponseLines("Invoice endpoint", o)
                     ELSE <<"Request failed: " \o o.body>>
            /\ pc' = IF o.body = ItemsNotSized THEN "returned" ELSE "test4"
    /\ UNCHANGED <<script, exit_status, typed, prompts, account_id, access_token>>
    /\ UNCHANGED notApiVars

\* Lines 149-176, Test 4: 200, 403 and the other statuses have their own message.
ApiTest4 ==
    /\ script = "debug_netsuite_api"
    /\ pc = "test4"
    /\ \E o \in GetOutcomes :
        LET account_url == base_url(account_id) \o "/services/rest/record/v1/account"
        IN  /\ requests' = Append(requests, Issued(account_url, o))
            /\ output' = output \o
                  <<"Test 4: Permissions Check", "Making request to: " \o account_url>>
                  \o IF o.kind = "response"
                     THEN <<"Response Status: " \o ToStr(o.status)>> \o
                          IF o.status = 200
                          THEN <<"Account endpoint accessible - good permissions!">>
                          ELSE IF o.status = 403
                          THEN <<"Permission denied - check your OAuth scopes",
                                 "Required scopes: restlets, rest_webservices">>
                          ELSE <<"Account endpoint returned status " \o ToStr(o.status),
                                 "Response: " \o o.body>>
                     ELSE <<"Request failed: " \o o.body>>
    /\ pc' = "returned"
    /\ UNCHANGED <<script, exit_status, typed, prompts, account_id, access_token>>
    /\ UNCHANGED notApiVars

\* A main without its handler of KeyboardInterrupt: Ctrl+C ends the script.
ApiInterruptedUncaught ==
    /\ script = "debug_netsuite_api"
    /\ pc \in {"config", "test1", "test2", "test3", "test4"}
    /\ prompts' = IF pc = "config"
                  THEN Append(prompts, "Enter your NetSuite Account ID: ")
                  ELSE prompts
    /\ output' = output
    /\ pc' = "exited"
    /\ exit_status' = "130"
    /\ UNCHANGED <<script, typed, account_id, access_token, requests>>
    /\ UNCHANGED notApiVars

\* Lines 182-185 of main: Ctrl+C while test_netsuite_api runs, at the first
\* prompt or before the GET of a test.
ApiInterrupted ==
    /\ script = "debug_netsuite_api"
    /\ pc \in {"config", "test1", "test2", "test3", "test4"}
    /\ prompts' = IF pc = "config"
                  THEN Append(prompts, "Enter your NetSuite Account ID: ")
                  ELSE prompts
    /\ output' = Append(output, "Debug interrupted by user")
    /\ pc' = "returned"
    /\ UNCHANGED <<script, exit_status, typed, account_id, access_token, requests>>
    /\ UNCHANGED notApiVars

\* Lines 178-192: test_netsuite_api returned; main prints its last line.
ApiMainDone ==
    /\ script = "debug_netsuite_api"
    /\ pc = "returned"
    /\ output' = Append(output, "Debug complete!")
    /\ pc' = "exited"
    /\ exit_status' = "0"
    /\ UNCHANGED <<script, apiVars, notApiVars>>

\* quick_test.py lines 16-35: the account ID is read and checked first.
QuickReadAccount ==
    /\ script = "quick_test"
    /\ pc = "input_account"
    /\ prompts' = Append(prompts, "Enter NetSuite Account ID: ")
    /\ account_id' = Strip(typed.account)
    /\ IF account_id' = ""
       THEN /\ output' = Append(output, "Missing Account ID")
            /\ pc' = "returned"
       ELSE /\ output' = output \o
                  <<"Checking OAuth tokens...", "Testing OAuth connection...",
                    "To get your access token:">>
            /\ pc' = "input_token"
    /\ UNCHANGED <<script, exit_status, typed, access_token, requests>>
    /\ UNCHANGED notApiVars

\* quick_test.py lines 37-47: the access token is read and checked.
QuickReadToken ==
    /\ script = "quick_test"
    /\ pc = "input_token"
    /\ prompts' = Append(prompts, "Enter Access Token from app: ")
    /\ access_token' = Strip(typed.token)
    /\ IF access_token' = ""
       THEN /\ output' = Append(output, "Missing access token")
            /\ pc' = "returned"
       ELSE /\ output' = output
            /\ pc' = "request"
    /\ UNCHANGED <<script, exit_status, typed, account_id, requests>>
    /\ UNCHANGED notApiVars

\* quick_test.py lines 54-88: what is printed for the outcome of the one GET. A
\* 200 whose body is not JSON makes response.json() raise; the handler that
\* catches it prints one line.
QuickLines(o) ==
    IF o.kind = "Timeout" THEN <<"Request timed out">>
    ELSE IF o.kind = "RequestException" THEN <<"Network error: " \o o.body>>
    ELSE <<"Status: " \o ToStr(o.status)>> \o
         IF o.status = 200
         THEN IF o.body = "json"
              THEN <<"Response received", "No customer records found in response">>
              ELSE <<"Network error: " \o o.body>>
         ELSE IF o.status = 401
         THEN <<"Authentication failed - OAuth token may be expired",
                "Try refreshing the token in the app">>
         ELSE IF o.status = 403
         THEN <<"Permission denied - check your NetSuite permissions">>
         ELSE <<"Error: " \o ToStr(o.status), "Response: " \o o.body \o "...">>

\* quick_test.py lines 29, 49-88: the single GET.
QuickRequest ==
    /\ script = "quick_test"
    /\ pc = "request"
    /\ \E o \in GetOutcomes :
        LET url == "https://" \o account_id
                       \o ".restlets.api.netsuite.com/rest/platform/v1/record/customer"
        IN  /\ requests' = Append(requests, Issued(url, o))
            /\ output' = output \o <<"Making request to: " \o url>> \o QuickLines(o)
    /\ pc' = "returned"
    /\ UNCHANGED <<script, exit_status, typed, prompts, account_id, access_token>>
    /\ UNCHANGED notApiVars

\* quick_test.py lines 90-91: quick_test returned and the script ends.
QuickExit ==
    /\ script = "quick_test"
    /\ pc = "returned"
    /\ pc' = "exited"
    /\ exit_status' = "0"
    /\ UNCHANGED <<script, output, apiVars, notApiVars>>

NextApi ==
    \/ ApiReadConfig
    \/ ApiTest1
    \/ ApiTest2
    \/ ApiTest3
    \/ ApiTest4
    \/ ApiInterrupted
    \/ ApiMainDone
    \/ QuickReadAccount
    \/ QuickReadToken
    \/ QuickRequest
    \/ QuickExit

SpecApi == InitApi /\ [][NextApi]_vars

\* The same with progress: the engineer answers the prompts and every GET
\* returns or raises (each has timeout=30), so a step that can be taken is
\* taken.
FairSpecApi == SpecApi /\ WF_vars(NextApi)

(***************************************************************************)
(* Claims about debug_netsuite_api.py and quick_test.py                    *)
(***************************************************************************)

\* The requests of the log that raised.
Raised(i) == requests[i].outcome \in {"RequestException", "Timeout"}

\* The number of printed lines that start with prefix.
PrintedWith(prefix) ==
    Cardinality({i \in 1..Len(output) : StartsWith(output[i], prefix)})

\* C3 as stated: in test_netsuite_api, once a GET has raised a RequestException
\* no further HTTP request is issued, whichever of the four tests raised.
C3_NoRequestAfterException ==
    script = "debug_netsuite_api" =>
        \A i \in 1..Len(requests) : Raised(i) => i = Len(requests)

\* main has caught a KeyboardInterrupt or an exception that is no
\* RequestException.
Aborted ==
    PrintedWith("Debug interrupted by user") + PrintedWith("Unexpected error: ") > 0

\* C3 amended: every RequestException is printed ('Request failed: ...'); no
\* further request follows one raised by Test 1; one raised by Test 2 or Test 3
\* does not stop the run, which still issues the requests of the tests left
\* (unless Ctrl+C or an exception of another kind ends it).
C3_ExceptionPrintedAndOnlyTest1Stops ==
    script = "debug_netsuite_api" =>
        /\ PrintedWith("Request failed: ")
              = Cardinality({i \in 1..Len(requests) : Raised(i)})
        /\ (Len(requests) >= 1 /\ Raised(1)) => Len(requests) = 1
        /\ \A i \in 2..Len(requests) :
              (Raised(i) /\ pc \in {"returned", "exited"} /\ ~Aborted)
                  => Len(requests) = 4

\* C3 witness: Test 2 raised and the run went on to the end of Test 4.
C3_Witness ==
    /\ script = "debug_netsuite_api"
    /\ pc = "exited"
    /\ Len(requests) = 4
    /\ Raised(2)

\* test_netsuite_api is over.
ApiOver == script = "debug_netsuite_api" /\ pc \in {"returned", "exited"}

\* The credentials typed were empty and no request was made.
NoCredentials == requests = <<>> /\ (account_id = "" \/ access_token = "")

\* C13, as the specification states it: once Test 1's request has returned a
\* response of any status, Tests 2, 3 and 4 are each attempted exactly once, in
\* the order customer, invoice, account, whatever Test 2 and Test 3 produce;
\* Tests 2-4 are skipped only when Test 1's request raised a RequestException
\* or the credentials were empty.
C13_LaterTestsAlwaysAttempted ==
    ApiOver =>
        /\ (Len(requests) >= 1 /\ ~Raised(1)) => Len(requests) = 4
        /\ Len(requests) < 4 => (NoCredentials \/ (Len(requests) = 1 /\ Raised(1)))

\* C13, as the code has it: the same, for a run that neither Ctrl+C nor an
\* exception other than a RequestException has ended; a status code or a
\* RequestException of Test 2 or Test 3 never keeps a later test from its one
\* attempt, and the attempts keep the order customer, invoice, account.
C13_LaterTestsAttemptedUnlessAborted ==
    /\ (ApiOver /\ ~Aborted) =>
          /\ (Len(requests) >= 1 /\ ~Raised(1)) => Len(requests) = 4
          /\ Len(requests) < 4 => (NoCredentials \/ (Len(requests) = 1 /\ Raised(1)))
    /\ script = "debug_netsuite_api" =>
          /\ Len(requests) <= 4
          /\ \A i \in 2..Len(requests) :
                requests[i].url = base_url(account_id) \o "/services/rest/record/v1/"
                                     \o <<"", "customer", "invoice", "account">>[i]

\* Test 1 got a 500, Test 2 and Test 3 raised, and Test 4 was still attempted.
C13_Witness ==
    /\ ApiOver
    /\ ~Aborted
    /\ Len(requests) = 4
    /\ requests[1].status = 500
    /\ Raised(2)
    /\ Raised(3)

\* How often main has printed its last line.
DebugCompleteCount ==
    Cardinality({i \in 1..Len(output) : output[i] = "Debug complete!"})

\* C16: main of debug_netsuite_api.py always finishes: whatever the outcome of
\* test_netsuite_api (normal completion, return on missing credentials, return
\* after a RequestException of Test 1, KeyboardInterrupt, another Exception),
\* main eventually prints 'Debug complete!', exactly once, and returns
\* normally.
C16_MainAlwaysCompletes ==
    /\ [](script = "debug_netsuite_api" => DebugCompleteCount <= 1)
    /\ <>[](script = "debug_netsuite_api" =>
              /\ pc = "exited"
              /\ exit_status = "0"
              /\ DebugCompleteCount = 1
              /\ output[Len(output)] = "Debug complete!")

\* main has caught the TypeError of Test 3, printed 'Debug complete!' and
\* returned.
C16_Witness ==
    /\ script = "debug_netsuite_api"
    /\ pc = "exited"
    /\ exit_status = "0"
    /\ Len(requests) = 3
    /\ PrintedWith("Unexpected error: ") = 1
    /\ DebugCompleteCount = 1

\* The endpoints in the order the claim gives them.
ClaimedEndpoints == <<"customer?limit=1", "customer", "invoice", "account">>

\* C4: test_netsuite_api issues at most four GETs, the endpoints customer?limit=1,
\* customer, invoice, account each at most once and in that order; quick_test
\* issues at most one GET; nothing is ever re-sent.
C4_NoRetry ==
    /\ script = "debug_netsuite_api" =>
        /\ Len(requests) <= Len(ClaimedEndpoints)
        /\ \A i \in 1..Len(requests) :
              requests[i].url =
                  "https://" \o account_id
                      \o ".suitetalk.api.netsuite.com/services/rest/record/v1/"
                      \o ClaimedEndpoints[i]
    /\ script = "quick_test" => Len(requests) <= 1

\* C4 witness: a run whose second GET returned 500 and whose third raised, and
\* which still issued exactly the four requests.
C4_Witness ==
    /\ script = "debug_netsuite_api"
    /\ pc = "exited"
    /\ Len(requests) = 4
    /\ requests[2].status = 500
    /\ Raised(3)

\* A typed string that strips to the empty string.
Blank(s) == \A i \in 1..Len(s) : CharAt(s, i) \in {" ", "\t", "\n", "\r"}

\* C5: no request is issued when the stripped account ID or the stripped access
\* token is empty, and quick_test does not prompt for the token when the account
\* ID is empty.
C5_NoRequestWithoutCredentials ==
    /\ (Blank(typed.account) \/ Blank(typed.token)) => requests = <<>>
    /\ (script = "quick_test" /\ Blank(typed.account)) =>
          \A i \in 1..Len(prompts) : prompts[i] # "Enter Access Token from app: "

\* C5 witness: test_netsuite_api ended without a request because the token typed
\* was blanks only, the account ID being given.
C5_Witness ==
    /\ script = "debug_netsuite_api"
    /\ pc = "exited"
    /\ typed.account = "a"
    /\ typed.token = " "
    /\ requests = <<>>

(***************************************************************************)
(* test_oauth_url.py                                                       *)
(*                                                                         *)
(* The draws of the secrets module and the clock are fixed by Init on a    *)
(* tape: the k-th draw is first + k * step, and randbelow(n) returns the   *)
(* draw modulo n. hashlib.sha256 is not code of the repository: Sha256 is  *)
(* a 32-byte checksum standing in for it.                                  *)
(***************************************************************************)

\* The printable ASCII characters: codes 32 (" ") to 95 ("_"), and 97 ("a") to
\* 126 ("~"). The backquote (96) cannot be written in a TLA+ string and is left out.
AsciiLow ==
    " !\"#$%&'()*+,-./0123456789:;<=>?@ABCDEFGHIJKLMNOPQRSTUVWXYZ[\\]^_"
AsciiHigh == "abcdefghijklmnopqrstuvwxyz{|}~"

\* ord(c) for the printable ASCII characters.
CodeOf ==
    [c \in {CharAt(AsciiLow, i) : i \in 1..Len(AsciiLow)}
             \cup {CharAt(AsciiHigh, i) : i \in 1..Len(AsciiHigh)} |->
        IF Contains(AsciiLow, c)
        THEN 31 + Find(AsciiLow, c)
        ELSE 96 + Find(AsciiHigh, c)]

\* chr(n) for a printable ASCII code n.
Chr(n) == IF n < 96 THEN CharAt(AsciiLow, n - 31) ELSE CharAt(AsciiHigh, n - 96)

\* string.ascii_letters + string.digits + '-._~' (line 14)
allowed_chars ==
    "abcdefghijklmnopqrstuvwxyzABCDEFGHIJKLMNOPQRSTUVWXYZ0123456789-._~"

\* The k-th call of secrets.randbelow(n) on tape t.
RandBelow(t, k, n) == (t.first + (k * t.step)) % n

\* A length drawn from one value more.
VerifierLengthOneMore(t) == RandBelow(t, 0, 87) + 43

\* Line 15: the length of the verifier, from the first draw.
VerifierLength(t) == RandBelow(t, 0, 86) + 43

\* secrets.choice(seq) at the k-th draw.
Choice(t, k, seq) == CharAt(seq, RandBelow(t, k, Len(seq)) + 1)

\* Lines 12-16: one secrets.choice(allowed_chars) for every position.
generate_code_verifier(t) ==
    Concat([k \in 1..VerifierLength(t) |-> Choice(t, k, allowed_chars)],
           1, VerifierLength(t))

\* The sum of f[i] for i in lo..hi.
RECURSIVE Sum(_, _, _)
Sum(f, lo, hi) ==
    IF lo > hi THEN 0
    ELSE IF lo = hi THEN f[lo]
    ELSE LET mid == (lo + hi) \div 2
         IN  Sum(f, lo, mid) + Sum(f, mid + 1, hi)

\* Stand-in for hashlib.sha256(s.encode('utf-8')).digest(): 32 bytes computed
\* from every character of s and its position.
Sha256(s) ==
    LET codes    == [j \in 1..Len(s) |-> CodeOf[CharAt(s, j)]]
        weighted == [j \in 1..Len(s) |-> j * codes[j]]
        s1       == Sum(codes, 1, Len(s))
        s2       == Sum(weighted, 1, Len(s))
    IN  [i \in 1..32 |-> ((i * s1) + s2 + (31 * i * i) + Len(s)) % 256]

B64Alphabet ==
    "ABCDEFGHIJKLMNOPQRSTUVWXYZabcdefghijklmnopqrstuvwxyz0123456789-_"

B64Char(n) == CharAt(B64Alphabet, n + 1)

\* base64.urlsafe_b64encode: three bytes give four characters; a last group of
\* one or two bytes is padded with '='.
RECURSIVE UrlsafeB64Encode(_)
UrlsafeB64Encode(bytes) ==
    IF Len(bytes) = 0 THEN ""
    ELSE IF Len(bytes) = 1
    THEN B64Char(bytes[1] \div 4) \o B64Char((bytes[1] % 4) * 16) \o "=="
    ELSE IF Len(bytes) = 2
    THEN B64Char(bytes[1] \div 4)
            \o B64Char(((bytes[1] % 4) * 16) + (bytes[2] \div 16))
            \o B64Char((bytes[2] % 16) * 4) \o "="
    ELSE B64Char(bytes[1] \div 4)
            \o B64Char(((bytes[1] % 4) * 16) + (bytes[2] \div 16))
            \o B64Char(((bytes[2] % 16) * 4) + (bytes[3] \div 64))
            \o B64Char(bytes[3] % 64)
            \o UrlsafeB64Encode(SubSeq(bytes, 4, Len(bytes)))

\* s.rstrip('=')
RECURSIVE RStripPad(_)
RStripPad(s) ==
    IF Len(s) > 0 /\ CharAt(s, Len(s)) = "="
    THEN RStripPad(SubSeq(s, 1, Len(s) - 1))
    ELSE s

\* Lines 18-21
generate_code_challenge(verifier) == RStripPad(UrlsafeB64Encode(Sha256(verifier)))

\* secrets.token_urlsafe(16): 16 random bytes, base64url without padding. The
\* bytes are the draws that follow those of the verifier.
token_urlsafe(t, after) ==
    RStripPad(UrlsafeB64Encode([i \in 1..16 |-> RandBelow(t, after + i, 256)]))

\* Lines 23-27
generate_state(t, after) == token_urlsafe(t, after) \o "_" \o ToStr(t.now)

HexDigits == "0123456789ABCDEF"

\* The characters quote_plus leaves as they are.
Unreserved ==
    "abcdefghijklmnopqrstuvwxyzABCDEFGHIJKLMNOPQRSTUVWXYZ0123456789_.-~"

\* A quote_plus that leaves '&' as it is.
quote_plus_keeps_ampersand(s) ==
    Concat([k \in 1..Len(s) |->
              LET c == CharAt(s, k)
              IN  IF Contains(Unreserved \o "&", c) THEN c
                  ELSE IF c = " " THEN "+"
                  ELSE "%" \o CharAt(HexDigits, (CodeOf[c] \div 16) + 1)
                           \o CharAt(HexDigits, (CodeOf[c] % 16) + 1)], 1, Len(s))

\* urllib.parse.quote_plus on printable ASCII: a space becomes '+', every other
\* character that is not unreserved becomes %XX.
quote_plus(s) ==
    Concat([k \in 1..Len(s) |->
              LET c == CharAt(s, k)
              IN  IF Contains(Unreserved, c) THEN c
                  ELSE IF c = " " THEN "+"
                  ELSE "%" \o CharAt(HexDigits, (CodeOf[c] \div 16) + 1)
                           \o CharAt(HexDigits, (CodeOf[c] % 16) + 1)], 1, Len(s))

\* urllib.parse.urlencode of a sequence of <<name, value>> pairs.
urlencode(params) ==
    Join([i \in 1..Len(params) |->
            quote_plus(params[i][1]) \o "=" \o quote_plus(params[i][2])], "&")

\* Lines 41-49: the query parameters, in the dict's order.
auth_params(client_id, redirect_uri, state_value, code_challenge) == <<
    <<"response_type", "code">>,
    <<"client_id", client_id>>,
    <<"redirect_uri", redirect_uri>>,
    <<"scope", "restlets rest_webservices">>,
    <<"state", state_value>>,
    <<"code_challenge", code_challenge>>,
    <<"code_challenge_method", "S256">> >>

\* A build_authorization_url that draws a second verifier for the challenge.
build_authorization_url_second_verifier(a, t) ==
    LET verifier  == generate_code_verifier(t)
        challenge == generate_code_challenge(
                        generate_code_verifier([t EXCEPT !.step = t.step + 2]))
        st        == generate_state(t, Len(verifier))
        base      == "https://" \o a.account_id
                        \o ".app.netsuite.com/app/login/oauth2/authorize.nl"
        query     == urlencode(auth_params(a.client_id, a.redirect_uri, st, challenge))
    IN  [auth_url |-> base \o "?" \o query, code_verifier |-> verifier, state |-> st]

\* Lines 29-55: the tuple build_authorization_url returns.
build_authorization_url(a, t) ==
    LET verifier  == generate_code_verifier(t)
        challenge == generate_code_challenge(verifier)
        st        == generate_state(t, Len(verifier))
        base      == "https://" \o a.account_id
                        \o ".app.netsuite.com/app/login/oauth2/authorize.nl"
        query     == urlencode(auth_params(a.client_id, a.redirect_uri, st, challenge))
    IN  [auth_url |-> base \o "?" \o query, code_verifier |-> verifier, state |-> st]

\* The value of a hexadecimal digit of either case, -1 for another character.
HexValue(c) ==
    IF Contains(HexDigits, c) THEN Find(HexDigits, c) - 1
    ELSE IF Contains("abcdef", c) THEN Find("abcdef", c) + 9
    ELSE -1

\* Whether an escape %XX of a printable ASCII code starts at position k of s.
EscapeAt(s, k) ==
    /\ k >= 1
    /\ k + 2 <= Len(s)
    /\ CharAt(s, k) = "%"
    /\ HexValue(CharAt(s, k + 1)) >= 0
    /\ HexValue(CharAt(s, k + 2)) >= 0
    /\ (16 * HexValue(CharAt(s, k + 1))) + HexValue(CharAt(s, k + 2))
          \in (32..95) \cup (97..126)

\* urllib.parse.unquote on the escapes quote_plus produces for printable ASCII;
\* a '%' that no two hexadecimal digits follow, or whose code is not printable
\* ASCII, stays as it is. (The two digits of an escape are never a '%', so the
\* escapes cannot overlap.)
unquote(s) ==
    Concat([k \in 1..Len(s) |->
              IF EscapeAt(s, k)
              THEN Chr((16 * HexValue(CharAt(s, k + 1))) + HexValue(CharAt(s, k + 2)))
              ELSE IF EscapeAt(s, k - 1) \/ EscapeAt(s, k - 2) THEN ""
              ELSE CharAt(s, k)], 1, Len(s))

\* s.replace('+', ' ')
PlusToSpace(s) ==
    Concat([k \in 1..Len(s) |-> IF CharAt(s, k) = "+" THEN " " ELSE CharAt(s, k)],
           1, Len(s))

\* urllib.parse.parse_qsl with its defaults: the fields are split at '&', a field
\* without '=' or with an empty value is dropped, names and values are unquoted.
\* The result is the sequence of <<name, value>> pairs.
parse_qsl(qs) ==
    LET fields  == IF qs = "" THEN <<>> ELSE Split(qs, "&")
        Kept(f) == LET e == Find(f, "=") IN e > 0 /\ e < Len(f)
        kept    == SelectSeq(fields, Kept)
    IN  [i \in 1..Len(kept) |->
            LET e == Find(kept[i], "=")
            IN  <<unquote(PlusToSpace(SubSeq(kept[i], 1, e - 1))),
                  unquote(PlusToSpace(SubSeq(kept[i], e + 1, Len(kept[i]))))>>]

\* `param in query_params` for the dict parse_qs builds.
HasParam(pairs, name) == \E i \in 1..Len(pairs) : pairs[i][1] = name

\* query_params[name][0]: the first value given for name.
FirstValue(pairs, name) ==
    pairs[CHOOSE i \in 1..Len(pairs) :
            /\ pairs[i][1] = name
            /\ \A j \in 1..(i - 1) : pairs[j][1] # name][2]

scheme_chars ==
    "abcdefghijklmnopqrstuvwxyzABCDEFGHIJKLMNOPQRSTUVWXYZ0123456789+-."

\* The first position at or after `from` of a character of `delims` in s, or
\* Len(s) + 1.
FirstDelim(s, delims, from) ==
    LET hits == {i \in from..Len(s) : Contains(delims, CharAt(s, i))}
    IN  IF hits = {} THEN Len(s) + 1
        ELSE CHOOSE i \in hits : \A j \in hits : i <= j

\* The bracketed hosts ipaddress.ip_address takes for IPv6 addresses, among the
\* hosts the inputs below can produce.
IPv6Literals == {"::1"}

\* The check urlsplit makes of a netloc with square brackets: the message of the
\* ValueError it raises, or "" when it raises none. (IPvFuture and IPv4 hosts in
\* brackets are not among the inputs.)
BracketError(netloc) ==
    LET open  == Find(netloc, "[")
        after == IF open > 0 THEN SubSeq(netloc, open + 1, Len(netloc)) ELSE ""
        close == Find(after, "]")
        host  == IF close > 0 THEN SubSeq(after, 1, close - 1) ELSE after
    IN  IF Contains(netloc, "[") # Contains(netloc, "]")
        THEN "Invalid IPv6 URL"
        ELSE IF Contains(netloc, "[") /\ host \notin IPv6Literals
        THEN "'" \o host \o "' does not appear to be an IPv4 or IPv6 address"
        ELSE ""

\* urllib.parse.urlsplit (urlparse adds nothing for an https URL whose path has
\* no ';'): scheme, netloc, path, query, fragment. `error` is the message of the
\* ValueError urlsplit raises, "" when it raises none.
urlparse(url) ==
    LET colon     == Find(url, ":")
        hasScheme == /\ colon > 1
                     /\ Contains(UpperCase \o LowerCase, CharAt(url, 1))
                     /\ \A j \in 1..(colon - 1) : Contains(scheme_chars, CharAt(url, j))
        scheme    == IF hasScheme THEN Lower(SubSeq(url, 1, colon - 1)) ELSE ""
        rest1     == IF hasScheme THEN SubSeq(url, colon + 1, Len(url)) ELSE url
        hasNetloc == StartsWith(rest1, "//")
        delim     == FirstDelim(rest1, "/?#", 3)
        netloc    == IF hasNetloc THEN SubSeq(rest1, 3, delim - 1) ELSE ""
        rest2     == IF hasNetloc THEN SubSeq(rest1, delim, Len(rest1)) ELSE rest1
        hash      == Find(rest2, "#")
        fragment  == IF hash > 0 THEN SubSeq(rest2, hash + 1, Len(rest2)) ELSE ""
        rest3     == IF hash > 0 THEN SubSeq(rest2, 1, hash - 1) ELSE rest2
        mark      == Find(rest3, "?")
        query     == IF mark > 0 THEN SubSeq(rest3, mark + 1, Len(rest3)) ELSE ""
        path      == IF mark > 0 THEN SubSeq(rest3, 1, mark - 1) ELSE rest3
    IN  [scheme |-> scheme, netloc |-> netloc, path |-> path, query |-> query,
         fragment |-> fragment,
         error |-> BracketError(netloc)]

\* s.endswith(suffix)
EndsWith(s, suffix) ==
    Len(s) >= Len(suffix) /\ SubSeq(s, Len(s) - Len(suffix) + 1, Len(s)) = suffix

required_params ==
    <<"response_type", "client_id", "redirect_uri", "scope", "state",
      "code_challenge", "code_challenge_method">>

\* Lines 57-95: the (is_valid, message) tuple.
validate_url(url) ==
    LET parsed       == urlparse(url)
        query_params == parse_qsl(parsed.query)
        missing      == {i \in 1..Len(required_params) :
                            ~HasParam(query_params, required_params[i])}
    IN  IF parsed.error # ""
        THEN <<FALSE, "URL validation error: " \o parsed.error>>
        ELSE IF parsed.scheme # "https"
        THEN <<FALSE, "URL must use HTTPS">>
        ELSE IF ~Contains(parsed.netloc, "netsuite.com")
        THEN <<FALSE, "URL must be a NetSuite domain">>
        ELSE IF ~EndsWith(parsed.path, "/app/login/oauth2/authorize.nl")
        THEN <<FALSE, "Invalid authorization endpoint path">>
        ELSE IF missing # {}
        THEN <<FALSE, "Missing required parameter: "
                        \o required_params[CHOOSE i \in missing :
                                              \A j \in missing : i <= j]>>
        ELSE IF FirstValue(query_params, "response_type") # "code"
        THEN <<FALSE, "response_type must be 'code'">>
        ELSE IF FirstValue(query_params, "code_challenge_method") # "S256"
        THEN <<FALSE, "code_challenge_method must be 'S256'">>
        ELSE IF FirstValue(query_params, "scope") # "restlets rest_webservices"
        THEN <<FALSE, "scope must be 'restlets rest_webservices'">>
        ELSE <<TRUE, "URL is valid">>

\* The arguments main passes (lines 102-104).
MainArgs ==
    [account_id |-> "123456", client_id |-> "test_client_id",
     redirect_uri |-> "fieldpay://callback"]

\* Arguments for a call from elsewhere: the empty string, plain text, and text
\* with the characters a URL reserves.
AccountIds == {"", "a", "123456", "/", "?", "#", "&", "[", "[a]", "a b",
               "netsuite.com/", "x@y:1"}
ClientIds == {"", "a", "test_client_id", "&", "#", "=", "a+b %"}
RedirectUris == {"", "a", "fieldpay://callback", "&state=x", "#"}

\* The tapes: every first draw below RawDraws for main, and for the other calls
\* the first draws that give the shortest and the longest verifier.
RawDraws == 90
Steps == {5, 7}
Timestamps == {1700000000}
MainTapes == [first : 0..(RawDraws - 1), step : Steps, now : Timestamps]
SampleTapes == [first : {0, 85}, step : {5}, now : Timestamps]

InitUrl ==
    /\ \/ /\ script = "test_oauth_url"
          /\ args = MainArgs
          /\ tape \in MainTapes
          /\ output = <<"=== NetSuite OAuth Authorization URL Test ===",
                        "Test Parameters:",
                        "  Account ID: " \o MainArgs.account_id,
                        "  Client ID: " \o MainArgs.client_id,
                        "  Redirect URI: " \o MainArgs.redirect_uri>>
       \/ /\ script = "build_then_validate"
          /\ args \in [account_id : AccountIds, client_id : ClientIds,
                       redirect_uri : RedirectUris]
          /\ tape \in SampleTapes
          /\ output = <<>>
    /\ pc = "build"
    /\ exit_status = "running"
    /\ code_verifier = ""
    /\ state = ""
    /\ auth_url = ""
    /\ validation = <<>>
    /\ CredsIdle
    /\ ApiIdle
    /\ MonIdle

\* Line 113: auth_url, code_verifier, state = build_authorization_url(...), and
\* lines 115-117 of main.
UrlBuild ==
    /\ pc = "build"
    /\ script \in {"test_oauth_url", "build_then_validate"}
    /\ LET built == build_authorization_url(args, tape)
       IN  /\ auth_url' = built.auth_url
           /\ code_verifier' = built.code_verifier
           /\ state' = built.state
           /\ output' = IF script = "test_oauth_url"
                        THEN output \o <<"Generated Authorization URL:",
                                         "  " \o built.auth_url>>
                        ELSE output
    /\ pc' = IF script = "test_oauth_url" THEN "print_pkce" ELSE "validate"
    /\ UNCHANGED <<script, exit_status, args, tape, validation>>
    /\ UNCHANGED notUrlVars

\* Lines 119-123 of main: the PKCE parameters. Both lines print code_verifier.
UrlPrintPkce ==
    /\ script = "test_oauth_url"
    /\ pc = "print_pkce"
    /\ output' = output \o
          <<"PKCE Parameters:",
            "  Code Verifier: " \o Slice(code_verifier, 0, 20) \o "... (length: "
                \o ToStr(Len(code_verifier)) \o ")",
            "  Code Challenge: " \o Slice(code_verifier, 0, 20) \o "... (length: "
                \o ToStr(Len(code_verifier)) \o ")",
            "  State: " \o state>>
    /\ pc' = "validate"
    /\ UNCHANGED <<script, exit_status, urlVars>>
    /\ UNCHANGED notUrlVars

\* Lines 126-128: is_valid, message = validate_url(auth_url)
UrlValidate ==
    /\ script \in {"test_oauth_url", "build_then_validate"}
    /\ pc = "validate"
    /\ validation' = validate_url(auth_url)
    /\ output' = IF script = "test_oauth_url"
                 THEN output \o
                        <<"URL Validation: "
                            \o (IF validation'[1] THEN "PASS" ELSE "FAIL"),
                          "  " \o validation'[2]>>
                 ELSE output
    /\ pc' = IF script = "test_oauth_url" THEN "components" ELSE "exited"
    /\ UNCHANGED <<script, exit_status, args, tape, code_verifier, state, auth_url>>
    /\ UNCHANGED notUrlVars

\* Lines 131-144 of main: the URL is parsed again and its components printed
\* (the parameter names of main's URL are distinct, so the dict of parse_qs
\* holds one entry for every pair).
UrlComponents ==
    /\ script = "test_oauth_url"
    /\ pc = "components"
    /\ LET parsed       == urlparse(auth_url)
           query_params == parse_qsl(parsed.query)
       IN  output' = output \o
              <<"URL Components:",
                "  Scheme: " \o parsed.scheme,
                "  Netloc: " \o parsed.netloc,
                "  Path: " \o parsed.path,
                "  Query Parameters:">>
              \o [i \in 1..Len(query_params) |->
                    "    " \o query_params[i][1] \o ": " \o query_params[i][2]]
              \o <<"=== Test Complete ===">>
    /\ pc' = "exited"
    /\ exit_status' = "0"
    /\ UNCHANGED <<script, urlVars>>
    /\ UNCHANGED notUrlVars

NextUrl ==
    \/ UrlBuild
    \/ UrlPrintPkce
    \/ UrlValidate
    \/ UrlComponents

SpecUrl == InitUrl /\ [][NextUrl]_vars

\* Whether s holds none of the characters of chars.
NoneOf(s, chars) == \A k \in 1..Len(s) : ~Contains(chars, CharAt(s, k))

\* C6, as the specification states it: for every account_id, client_id and
\* redirect_uri, the empty string and strings with URL-reserved characters
\* included, validate_url of the URL build_authorization_url returns is
\* (True, "URL is valid").
C6_RoundTripAlwaysValid ==
    validation # <<>> => validation = <<TRUE, "URL is valid">>

\* C6, as the code has it: the round trip gives (True, "URL is valid") when
\* client_id and redirect_uri are not empty and account_id holds none of '/',
\* '?', '#', '[', ']'; with such an account_id, an empty client_id gives
\* (False, "Missing required parameter: client_id"), and an empty redirect_uri
\* after a client_id that is not empty gives the same for redirect_uri.
C6_RoundTripValidForPlainArguments ==
    (validation # <<>> /\ NoneOf(args.account_id, "/?#[]")) =>
        validation =
            IF args.client_id = ""
            THEN <<FALSE, "Missing required parameter: client_id">>
            ELSE IF args.redirect_uri = ""
            THEN <<FALSE, "Missing required parameter: redirect_uri">>
            ELSE <<TRUE, "URL is valid">>

\* A call with reserved characters in client_id and redirect_uri, validated.
C6_Witness ==
    /\ script = "build_then_validate"
    /\ args = [account_id |-> "a b", client_id |-> "&", redirect_uri |-> "#"]
    /\ validation = <<TRUE, "URL is valid">>

\* The alphabet RFC 7636 gives a code verifier.
PkceAlphabet == LowerCase \o UpperCase \o Digits \o "-._~"

\* C7: every code verifier generate_code_verifier returns is 43 to 128
\* characters long and made of ASCII letters, digits, '-', '.', '_' and '~'
\* only; the lengths 43 and 128 are both drawn.
C7_VerifierLengthAndAlphabet ==
    /\ code_verifier # "" =>
          /\ Len(code_verifier) >= 43
          /\ Len(code_verifier) <= 128
          /\ \A k \in 1..Len(code_verifier) :
                Contains(PkceAlphabet, CharAt(code_verifier, k))
    /\ \E t \in MainTapes : VerifierLength(t) = 43
    /\ \E t \in MainTapes : VerifierLength(t) = 128

\* main has printed the PKCE parameters of a verifier of the greatest length.
C7_Witness ==
    /\ script = "test_oauth_url"
    /\ pc = "validate"
    /\ Len(code_verifier) = 128

\* The query parameters of url, none for a url urlparse raises on.
QueryPairs(url) ==
    LET parsed == urlparse(url)
    IN  IF parsed.error # "" THEN <<>> ELSE parse_qsl(parsed.query)

\* The URL carries, once each, the challenge of the returned verifier, the
\* method S256 and the returned state; the challenge is 43 characters without
\* padding.
Paired ==
    LET pairs == QueryPairs(auth_url)
        only(name, value) ==
            /\ \E i \in 1..Len(pairs) : pairs[i][1] = name
            /\ \A i \in 1..Len(pairs) : pairs[i][1] = name => pairs[i][2] = value
        challenge == generate_code_challenge(code_verifier)
    IN  /\ only("code_challenge", challenge)
        /\ only("code_challenge_method", "S256")
        /\ only("state", state)
        /\ Len(challenge) = 43
        /\ NoneOf(challenge, "=")

\* C8, as the specification states it: for every call of
\* build_authorization_url the code_challenge query parameter of the returned
\* URL is generate_code_challenge of the returned code_verifier, the
\* code_challenge_method parameter is 'S256' and the state parameter is the
\* returned state.
C8_PairedForEveryCall == auth_url # "" => Paired

\* C8, as the code has it: the pairing holds for every call whose account_id
\* holds none of '?', '#', '[', ']', the characters that move or hide the
\* query of the URL.
C8_PairedWhenQueryIntact ==
    (auth_url # "" /\ NoneOf(args.account_id, "?#[]")) => Paired

\* main has built its URL around a verifier of the least length.
C8_Witness ==
    /\ script = "test_oauth_url"
    /\ pc = "print_pkce"
    /\ Len(code_verifier) = 43
    /\ Paired

\* C15: in main of test_oauth_url.py the line labelled 'Code Challenge' shows
\* the first 20 characters and the length of the code_challenge parameter of
\* the generated URL, generate_code_challenge(code_verifier), not those of the
\* code verifier.
C15_ChallengeLineShowsChallenge ==
    script = "test_oauth_url" =>
        \A i \in 1..Len(output) :
            StartsWith(output[i], "  Code Challenge: ") =>
                LET code_challenge == generate_code_challenge(code_verifier)
                IN  output[i] = "  Code Challenge: " \o Slice(code_challenge, 0, 20)
                                   \o "... (length: " \o ToStr(Len(code_challenge))
                                   \o ")"

\* URLs for a call of validate_url by itself: every scheme, host, path and
\* query below, put together.
SampleSchemes == {"https", "http"}
SampleHosts ==
    {"123456.app.netsuite.com", "netsuite.com", "NETSUITE.COM", "evilnetsuite.com",
     "netsuite.com.example.org", "netsuite.com@example.org", "example.org",
     "example.org:443"}
SamplePaths == {"/app/login/oauth2/authorize.nl", "/app/login"}
SampleQueries ==
    {urlencode(auth_params("a", "b", "s", "c")),
     "response_type=code&client_id=a&redirect_uri=b&scope=restlets+rest_webservices"
        \o "&code_challenge=c&code_challenge_method=S256",
     "response_type=token&client_id=a&redirect_uri=b&scope=restlets+rest_webservices"
        \o "&state=s&code_challenge=c&code_challenge_method=S256",
     "response_type=code&client_id=a&redirect_uri=b&scope=restlets+rest_webservices"
        \o "&state=s&code_challenge=c&code_challenge_method=plain"}
SampleUrls ==
    {sch \o "://" \o h \o p \o "?" \o q :
        sch \in SampleSchemes, h \in SampleHosts, p \in SamplePaths, q \in SampleQueries}

InitValidate ==
    /\ script = "validate_url"
    /\ pc = "validate"
    /\ output = <<>>
    /\ exit_status = "running"
    /\ args = [account_id |-> "", client_id |-> "", redirect_uri |-> ""]
    /\ tape = [first |-> 0, step |-> 0, now |-> 0]
    /\ code_verifier = ""
    /\ state = ""
    /\ auth_url \in SampleUrls
    /\ validation = <<>>
    /\ CredsIdle
    /\ ApiIdle
    /\ MonIdle

\* Lines 57-95: a call validate_url(url).
ValidateCall ==
    /\ script = "validate_url"
    /\ pc = "validate"
    /\ validation' = validate_url(auth_url)
    /\ pc' = "exited"
    /\ UNCHANGED <<script, output, exit_status, args, tape, code_verifier, state,
                   auth_url>>
    /\ UNCHANGED notUrlVars

NextValidate == ValidateCall

SpecValidate == InitValidate /\ [][NextValidate]_vars

\* The host of a netloc: what follows the last '@', up to the port, in lower
\* case.
HostOf(netloc) ==
    LET parts    == Split(netloc, "@")
        hostport == parts[Len(parts)]
    IN  Lower(Split(hostport, ":")[1])

\* netsuite.com or a subdomain of it.
IsNetSuiteHost(h) == h = "netsuite.com" \/ EndsWith(h, ".netsuite.com")

\* C14: validate_url returns (True, ...) only for URLs whose host is
\* netsuite.com or a subdomain of netsuite.com, and (False, "URL must be a
\* NetSuite domain") for every https URL with another host, hosts that merely
\* hold the text 'netsuite.com' included.
C14_OnlyNetSuiteHosts ==
    (script = "validate_url" /\ validation # <<>>) =>
        LET parsed == urlparse(auth_url)
            host   == HostOf(parsed.netloc)
        IN  /\ validation[1] => IsNetSuiteHost(host)
            /\ (parsed.scheme = "https" /\ ~IsNetSuiteHost(host)) =>
                  validation = <<FALSE, "URL must be a NetSuite domain">>

(***************************************************************************)
(* debug_oauth.py and debug_userdefaults.py: run_log_monitor and           *)
(* run_userdefaults_monitor, and the log-stream subprocess they start.     *)
(***************************************************************************)

\* s * n
Repeat(s, n) == Concat([k \in 1..n |-> s], 1, n)

\* debug_oauth.py lines 39-44
oauth_keywords == <<
    "OAuth", "NetSuite", "token", "authorization", "callback",
    "URL", "Safari", "redirect", "code", "access_token",
    "refresh_token", "error", "ERROR", "Debug", "FRESH",
    "UIOpenURLAction", "SceneClient", "FrontBoard" >>

\* debug_userdefaults.py lines 39-48
userdefaults_keywords == <<
    "UserDefaults", "netsuite_access_token", "netsuite_refresh_token",
    "netsuite_token_expiry", "netsuite_client_id", "netsuite_client_secret",
    "netsuite_account_id", "netsuite_redirect_uri", "netsuite_code_verifier",
    "netsuite_oauth_state", "storeTokens", "loadStoredTokens",
    "clearStoredTokens", "updateConfiguration", "configure",
    "Debug.*save", "Debug.*load", "Debug.*store", "Debug.*clear",
    "Debug.*UserDefaults", "Debug.*token", "Debug.*configured",
    "Debug.*OAuthManager", "Debug.*NetSuiteAPI", "Debug.*isConfigured" >>

\* The keyword list of the running monitor.
keywords == IF script = "debug_oauth" THEN oauth_keywords ELSE userdefaults_keywords

\* A keyword read as a pattern: what stands before '.*' and what stands after
\* it both occur, in that order, whatever the case.
keyword_matches_as_pattern(keyword, l) ==
    LET k      == Lower(keyword)
        text   == Lower(l)
        star   == Find(k, ".*")
        before == IF star = 0 THEN k ELSE SubSeq(k, 1, star - 1)
        after  == IF star = 0 THEN "" ELSE SubSeq(k, star + 2, Len(k))
        first  == Find(text, before)
    IN  /\ first > 0
        /\ Contains(SubSeq(text, first + Len(before), Len(text)), after)

\* keyword.lower() in line.lower()  (debug_oauth.py line 56,
\* debug_userdefaults.py line 60)
keyword_in_line(keyword, l) == Contains(Lower(l), Lower(keyword))

\* any(keyword.lower() in line.lower() for keyword in ...)
any_keyword(l) == \E i \in 1..Len(keywords) : keyword_in_line(keywords[i], l)

\* The text standing for the characters U+2705 and U+274C in a log line.
CheckMark == "(U+2705)"
CrossMark == "(U+274C)"

\* debug_oauth.py lines 61-68: the lines of the special highlighting.
oauth_highlight(l) ==
    IF Contains(l, "UIOpenURLAction") THEN <<"OAuth Callback Detected!">>
    ELSE IF Contains(l, "ERROR") \/ Contains(l, "error") THEN <<"Error Detected!">>
    ELSE IF Contains(Lower(l), "token") THEN <<"Token Activity Detected!">>
    ELSE IF Contains(l, "Safari") THEN <<"Safari Activity Detected!">>
    ELSE <<>>

\* debug_userdefaults.py lines 65-82
userdefaults_highlight(l) ==
    IF Contains(l, "storeTokens") THEN <<"Token Storage Detected!">>
    ELSE IF Contains(l, "loadStoredTokens") THEN <<"Token Loading Detected!">>
    ELSE IF Contains(l, "clearStoredTokens") THEN <<"Token Clearing Detected!">>
    ELSE IF Contains(l, "netsuite_access_token")
    THEN <<"Access Token Operation Detected!">>
    ELSE IF Contains(l, "netsuite_refresh_token")
    THEN <<"Refresh Token Operation Detected!">>
    ELSE IF Contains(l, "isConfigured") THEN <<"Configuration Check Detected!">>
    ELSE IF Contains(l, "ERROR") \/ Contains(l, "error") THEN <<"Error Detected!">>
    ELSE IF Contains(l, CheckMark) THEN <<"Success Detected!">>
    ELSE IF Contains(l, CrossMark) THEN <<"Failure Detected!">>
    ELSE <<>>

\* datetime.now(), held at one instant: '%H:%M:%S.%f' cut to milliseconds.
Timestamp == "09:41:00.000"

\* The body of the loop for one line (lines 55-68, lines 59-82): what it prints.
LinePrints(l) ==
    IF any_keyword(l)
    THEN <<"[" \o Timestamp \o "] " \o Strip(l)>>
            \o (IF script = "debug_oauth" THEN oauth_highlight(l)
                ELSE userdefaults_highlight(l))
    ELSE <<>>

\* What the log stream may write to stdout: lines with a keyword of either
\* list in either case, lines with the words of a pattern-like keyword but not
\* its characters, lines with none, a line of blanks around its text and an
\* empty line.
LogLines ==
    IF script = "debug_oauth"
    THEN {"OAuth token exchange\n", "debug will save\n", "plain text\n",
          "  UIOpenURLAction ERROR  \n", "Error in Safari\n", "\n"}
    ELSE {"debug will save\n", "Debug.*save done\n", "plain text\n",
          "STORETOKENS error\n", "configure " \o CheckMark \o "\n",
          "  loadStoredTokens netsuite_access_token \n"}

\* How many lines the stdout pipe holds and how many chunks the stderr pipe
\* holds before a write blocks, and how many writes the subprocess makes.
StdoutCapacity == 2
StderrCapacity == 1
MaxWrites == 3

\* What subprocess.Popen may raise when the stream cannot be started.
PopenErrors == {"[Errno 2] No such file or directory: 'xcrun'"}

InitMonitor ==
    /\ script \in {"debug_oauth", "debug_userdefaults"}
    /\ pc = "main"
    /\ output = <<>>
    /\ exit_status = "running"
    /\ MonIdle
    /\ CredsIdle
    /\ ApiIdle
    /\ UrlIdle

\* What subprocess.run gives for `xcrun simctl list devices` and for `xcrun
\* simctl listapps "iPhone 16"`: the captured stdout, or the exception raised
\* when xcrun cannot be started.
RunOutcomes(texts) ==
    [stdout : texts, raised : {""}]
        \cup [stdout : {""}, raised : {"[Errno 2] No such file or directory: 'xcrun'"}]

DeviceListings ==
    {"    iPhone 16 (0A1B) (Booted)\n", "    iPhone 15 (4E5F) (Shutdown)\n", ""}

AppListings ==
    {"    \"Fieldpay.fieldpay\" = {\n    };\n", "    \"com.apple.Maps\" = {\n    };\n", ""}

\* debug_oauth.py lines 79-99 (debug_userdefaults.py lines 93-113): the value
\* returned and the lines printed, for an outcome o of subprocess.run.
check_simulator_status(o) ==
    IF o.raised # ""
    THEN [returned |-> FALSE,
          prints   |-> <<"Error checking simulator status: " \o o.raised>>]
    ELSE IF Contains(o.stdout, "iPhone 16")
    THEN [returned |-> TRUE, prints |-> <<"iPhone 16 simulator found">>]
    ELSE [returned |-> FALSE,
          prints   |-> <<"iPhone 16 simulator not found", "Available devices:",
                         o.stdout>>]

\* debug_oauth.py lines 101-119 (debug_userdefaults.py lines 115-133)
check_app_installed(o) ==
    IF o.raised # ""
    THEN [returned |-> FALSE,
          prints   |-> <<"Error checking app installation: " \o o.raised>>]
    ELSE IF Contains(o.stdout, "Fieldpay.fieldpay")
    THEN [returned |-> TRUE, prints |-> <<"FieldPay app found on simulator">>]
    ELSE [returned |-> FALSE, prints |-> <<"FieldPay app not found on simulator">>]

\* debug_oauth.py lines 123-124 (debug_userdefaults.py lines 137-138)
Title ==
    <<IF script = "debug_oauth" THEN "FieldPay OAuth Debug Tool"
      ELSE "FieldPay UserDefaults Debug Tool",
      Repeat("=", 40)>>

\* debug_oauth.py lines 135-141 (debug_userdefaults.py lines 149-155)
Tips ==
    IF script = "debug_oauth"
    THEN <<"Starting OAuth flow monitoring...", "Tips:",
           "   - Start the OAuth flow in your app",
           "   - Watch for callback URLs and token exchanges",
           "   - Look for any error messages",
           "   - Check Safari redirects">>
    ELSE <<"Starting UserDefaults monitoring...", "Tips:",
           "   - Start the OAuth flow in your app",
           "   - Watch for token storage and retrieval operations",
           "   - Look for configuration status checks",
           "   - Check for any storage errors">>

\* main, lines 123-129 (137-143): the title and the simulator check;
\* sys.exit(1) when it returns False.
MainCheckSimulator ==
    /\ pc = "main"
    /\ \E o \in RunOutcomes(DeviceListings) :
          LET r == check_simulator_status(o)
          IN  /\ checks' = Append(checks,
                     [cmd |-> <<"xcrun", "simctl", "list", "devices">>,
                      outcome |-> o, returned |-> r.returned])
              /\ output' = output \o Title \o r.prints
                     \o (IF r.returned THEN <<>>
                         ELSE <<"Please ensure iPhone 16 simulator is available">>)
              /\ pc' = IF r.returned THEN "check_app" ELSE "exited"
              /\ exit_status' = IF r.returned THEN exit_status ELSE "1"
    /\ UNCHANGED <<script, process, pending, stdout_pipe, stderr_pipe, last_line,
                   writes, uncaught>>
    /\ UNCHANGED notMonVars

\* A main that goes on to the monitor whatever the app check returns.
MainCheckAppGoesOn ==
    /\ pc = "check_app"
    /\ \E o \in RunOutcomes(AppListings) :
          LET r == check_app_installed(o)
          IN  /\ checks' = Append(checks,
                     [cmd |-> <<"xcrun", "simctl", "listapps", "iPhone 16">>,
                      outcome |-> o, returned |-> r.returned])
              /\ output' = output \o r.prints \o Tips
              /\ pc' = "monitor"
              /\ exit_status' = exit_status
    /\ UNCHANGED <<script, process, pending, stdout_pipe, stderr_pipe, last_line,
                   writes, uncaught>>
    /\ UNCHANGED notMonVars

\* main, lines 131-141 (145-155): the app check, sys.exit(1) when it returns
\* False, the tips when it returns True.
MainCheckApp ==
    /\ pc = "check_app"
    /\ \E o \in RunOutcomes(AppListings) :
          LET r == check_app_installed(o)
          IN  /\ checks' = Append(checks,
                     [cmd |-> <<"xcrun", "simctl", "listapps", "iPhone 16">>,
                      outcome |-> o, returned |-> r.returned])
              /\ output' = output \o r.prints
                     \o (IF r.returned THEN Tips
                         ELSE <<"Please ensure FieldPay app is installed on simulator">>)
              /\ pc' = IF r.returned THEN "monitor" ELSE "exited"
              /\ exit_status' = IF r.returned THEN exit_status ELSE "1"
    /\ UNCHANGED <<script, process, pending, stdout_pipe, stderr_pipe, last_line,
                   writes, uncaught>>
    /\ UNCHANGED notMonVars

\* Lines 16-20: the banner.
Banner ==
    <<IF script = "debug_oauth" THEN "FieldPay OAuth Debug Monitor"
      ELSE "FieldPay UserDefaults Debug Monitor",
      Repeat("=", 50),
      IF script = "debug_oauth" THEN "Monitoring iOS simulator logs for OAuth flow..."
      ELSE "Monitoring iOS simulator logs for UserDefaults storage...",
      "Press Ctrl+C to stop monitoring",
      Repeat("=", 50)>>

\* Lines 46-48 (50-52): printed once Popen has returned.
Started ==
    <<"Monitoring started at " \o Slice(Timestamp, 0, 8),
      IF script = "debug_oauth" THEN "Looking for OAuth-related logs..."
      ELSE "Looking for UserDefaults-related logs...",
      Repeat("-", 50)>>

\* Lines 16-48 with a Popen that starts the log stream.
MonitorStart ==
    /\ pc = "monitor"
    /\ process' = "running"
    /\ output' = output \o Banner \o Started
    /\ pc' = "readline"
    /\ UNCHANGED <<script, exit_status, pending, stdout_pipe, stderr_pipe,
                   last_line, writes, checks, uncaught>>
    /\ UNCHANGED notMonVars

\* Lines 16-36 with a Popen that raises, and the handler of lines 74-77: it
\* prints the message, and its `if process:` reads a local that was never
\* bound, so an UnboundLocalError leaves the function and ends the script.
MonitorStartFails ==
    /\ pc = "monitor"
    /\ \E e \in PopenErrors :
          output' = output \o Banner \o <<"Error monitoring logs: " \o e>>
    /\ uncaught' = "UnboundLocalError"
    /\ pc' = "exited"
    /\ exit_status' = "1"
    /\ UNCHANGED <<script, process, pending, stdout_pipe, stderr_pipe, last_line,
                   writes, checks>>
    /\ UNCHANGED notMonVars

\* The subprocess's write of data to fd takes place: there is room in the pipe.
HasRoom(fd) ==
    IF fd = "stdout" THEN Len(stdout_pipe) < StdoutCapacity
    ELSE stderr_pipe < StderrCapacity

\* The log stream writes a line to stdout or a chunk to stderr; the write
\* blocks when the pipe is full.
LogWrite ==
    /\ process = "running"
    /\ writes < MaxWrites
    /\ \E w \in ({"stdout"} \X LogLines) \cup {<<"stderr", "log: warning\n">>} :
          IF HasRoom(w[1])
          THEN /\ stdout_pipe' = IF w[1] = "stdout" THEN Append(stdout_pipe, w[2])
                                 ELSE stdout_pipe
               /\ stderr_pipe' = IF w[1] = "stderr" THEN stderr_pipe + 1
                                 ELSE stderr_pipe
               /\ UNCHANGED <<process, pending>>
          ELSE /\ process' = "blocked"
               /\ pending' = w
               /\ UNCHANGED <<stdout_pipe, stderr_pipe>>
    /\ writes' = writes + 1
    /\ UNCHANGED <<commonVars, last_line, checks, uncaught>>
    /\ UNCHANGED notMonVars

\* A blocked write goes through once the reader of the pipe has made room.
LogResume ==
    /\ process = "blocked"
    /\ HasRoom(pending[1])
    /\ stdout_pipe' = IF pending[1] = "stdout" THEN Append(stdout_pipe, pending[2])
                      ELSE stdout_pipe
    /\ stderr_pipe' = IF pending[1] = "stderr" THEN stderr_pipe + 1 ELSE stderr_pipe
    /\ process' = "running"
    /\ pending' = <<>>
    /\ UNCHANGED <<commonVars, last_line, writes, checks, uncaught>>
    /\ UNCHANGED notMonVars

\* The log stream ends and its ends of the pipes close.
LogExits ==
    /\ process = "running"
    /\ process' = "exited"
    /\ UNCHANGED <<commonVars, pending, stdout_pipe, stderr_pipe, last_line, writes,
                   checks, uncaught>>
    /\ UNCHANGED notMonVars

\* Lines 51-68 (55-82): readline() returns a line and the loop body handles it.
MonitorReadLine ==
    /\ pc = "readline"
    /\ stdout_pipe # <<>>
    /\ last_line' = Head(stdout_pipe)
    /\ stdout_pipe' = Tail(stdout_pipe)
    /\ output' = output \o LinePrints(Head(stdout_pipe))
    /\ UNCHANGED <<script, pc, exit_status, process, pending, stderr_pipe, writes,
                   checks, uncaught>>
    /\ UNCHANGED notMonVars

\* Lines 51-53 (55-57): readline() returns '' at the end of the stream, the
\* loop breaks and the function returns.
MonitorEof ==
    /\ pc = "readline"
    /\ stdout_pipe = <<>>
    /\ process = "exited"
    /\ last_line' = ""
    /\ pc' = "exited"
    /\ exit_status' = "0"
    /\ UNCHANGED <<script, output, process, pending, stdout_pipe, stderr_pipe, writes,
                   checks, uncaught>>
    /\ UNCHANGED notMonVars

\* Lines 70-73 (84-87): Ctrl+C while the loop runs.
MonitorInterrupted ==
    /\ pc = "readline"
    /\ output' = output \o <<"Monitoring stopped by user">>
    /\ process' = IF process = "exited" THEN "exited" ELSE "terminated"
    /\ pending' = <<>>
    /\ pc' = "exited"
    /\ exit_status' = "0"
    /\ UNCHANGED <<script, stdout_pipe, stderr_pipe, last_line, writes, checks,
                   uncaught>>
    /\ UNCHANGED notMonVars

\* What may be raised inside the loop: readline() decoding bytes of the stream
\* that are not UTF-8.
LoopErrors ==
    {"'utf-8' codec can't decode byte 0xff in position 0: invalid start byte"}

\* Lines 74-77 (88-91): an Exception raised while the loop runs; the subprocess
\* exists, so the handler prints its message and terminates it.
MonitorRaises ==
    /\ pc = "readline"
    /\ \E e \in LoopErrors : output' = output \o <<"Error monitoring logs: " \o e>>
    /\ process' = IF process = "exited" THEN "exited" ELSE "terminated"
    /\ pending' = <<>>
    /\ pc' = "exited"
    /\ exit_status' = "0"
    /\ UNCHANGED <<script, stdout_pipe, stderr_pipe, last_line, writes, checks,
                   uncaught>>
    /\ UNCHANGED notMonVars

NextMonitor ==
    \/ MainCheckSimulator
    \/ MainCheckApp
    \/ MonitorStart
    \/ MonitorStartFails
    \/ LogWrite
    \/ LogResume
    \/ LogExits
    \/ MonitorReadLine
    \/ MonitorEof
    \/ MonitorInterrupted
    \/ MonitorRaises

SpecMonitor == InitMonitor /\ [][NextMonitor]_vars

\* Two characters that are equal, or the two cases of one letter.
SameLetter(a, b) ==
    \/ a = b
    \/ \E i \in 1..Len(UpperCase) :
          {a, b} = {CharAt(UpperCase, i), CharAt(LowerCase, i)}

\* The characters of keyword stand in l, one after the other, in either case.
HoldsLiterally(l, keyword) ==
    \E p \in 0..(Len(l) - Len(keyword)) :
        \A j \in 1..Len(keyword) : SameLetter(CharAt(l, p + j), CharAt(keyword, j))

\* A step of the loop that takes a line out of the stdout pipe.
ReadsALine == Len(stdout_pipe') = Len(stdout_pipe) - 1

\* C9: a line read from the subprocess is printed (stripped, behind its
\* timestamp) if and only if it holds an entry of the keyword list as a
\* literal, case-insensitive substring; a line that holds none produces no
\* output at all.
C9_PrintedIffLiteralKeyword ==
    [][ReadsALine =>
          IF \E i \in 1..Len(keywords) : HoldsLiterally(last_line', keywords[i])
          THEN /\ Len(output') > Len(output)
               /\ SubSeq(output', 1, Len(output)) = output
               /\ output'[Len(output) + 1] =
                     "[" \o Timestamp \o "] " \o Strip(last_line')
          ELSE output' = output]_vars

\* The UserDefaults monitor has read a line with the words of 'Debug.*save' but
\* not its characters, and printed nothing for it.
C9_Witness ==
    /\ script = "debug_userdefaults"
    /\ pc = "readline"
    /\ last_line = "debug will save\n"
    /\ output = Title \o <<"iPhone 16 simulator found", "FieldPay app found on simulator">>
                    \o Tips \o Banner \o Started

\* The loop waits for a line, the stdout pipe is empty, and the log stream is
\* blocked writing to the full stderr pipe, which nothing reads.
Stalled ==
    /\ pc = "readline"
    /\ stdout_pipe = <<>>
    /\ process = "blocked"
    /\ pending[1] = "stderr"

\* C10: the blocking read of the stdout pipe does not stall, whatever the
\* amount of output the subprocess writes to its stderr pipe: the monitor is
\* never left waiting for a line that the subprocess, blocked on stderr, cannot
\* write.
C10_NeverStalls == ~Stalled

\* A check of main that did not return True.
FailedCheck(c) == ~c.returned

\* C11: the log stream is started only after check_simulator_status and then
\* check_app_installed have both returned True; after a failed simulator check
\* the app check is never run; a check whose xcrun call raises has failed; and
\* after a failed check the script has exited with status 1 and has started no
\* log stream.
C11_PrerequisiteGating ==
    /\ (process # "none" \/ pc \in {"monitor", "readline"}) =>
          /\ Len(checks) = 2
          /\ checks[1].cmd = <<"xcrun", "simctl", "list", "devices">>
          /\ checks[2].cmd = <<"xcrun", "simctl", "listapps", "iPhone 16">>
          /\ checks[1].returned
          /\ checks[2].returned
    /\ (Len(checks) >= 1 /\ FailedCheck(checks[1])) => Len(checks) = 1
    /\ \A i \in 1..Len(checks) :
          /\ checks[i].outcome.raised # "" => FailedCheck(checks[i])
          /\ FailedCheck(checks[i]) =>
                /\ pc = "exited"
                /\ exit_status = "1"
                /\ process = "none"

\* The simulator check passed, the xcrun call of the app check raised, and the
\* script has exited with status 1.
C11_Witness ==
    /\ Len(checks) = 2
    /\ checks[1].returned
    /\ checks[2].outcome.raised # ""
    /\ exit_status = "1"
    /\ process = "none"

\* A handler of the monitor has printed its message: the last line of the output.
HandlerRan ==
    /\ output # <<>>
    /\ \/ output[Len(output)] = "Monitoring stopped by user"
       \/ StartsWith(output[Len(output)], "Error monitoring logs: ")

\* C12: whenever the monitor stops because of a KeyboardInterrupt or another
\* Exception raised in its try block, an exception of subprocess.Popen itself
\* included, the handler prints its message, terminates the subprocess if one
\* was started, and the function returns normally: nothing is raised from the
\* handler.
C12_HandlerReturnsNormally ==
    HandlerRan =>
        /\ uncaught = ""
        /\ exit_status = "0"
        /\ process \in {"none", "terminated", "exited"}

(***************************************************************************)
(* test_save_settings.py                                                   *)
(*                                                                         *)
(* The script shares the simulator's domain and the command log with       *)
(* set_netsuite_credentials.py and uses the same variables: `key_index` is *)
(* the position of the loop of save_netsuite_settings.                     *)
(***************************************************************************)

\* Lines 46-51: the dict of save_netsuite_settings, in insertion order.
settings == <<
    <<"netsuite_client_id", "test_client_id">>,
    <<"netsuite_client_secret", "test_client_secret">>,
    <<"netsuite_account_id", "test_account_id">>,
    <<"netsuite_redirect_uri", "fieldpay://callback">> >>

\* Lines 25-28: the command that reads one key back.
read_key_cmd(key) ==
    <<"xcrun", "simctl", "spawn", "iPhone 16", "defaults", "read", "Fieldpay.fieldpay", key>>

\* What subprocess.run(..., capture_output=True, text=True) can do: return a
\* result with exit code 0, return one with a non-zero exit code and what simctl
\* wrote to stderr (check=True is not passed, so nothing is raised for it), or
\* raise.
RunResults ==
    [returncode : {0}, stderr : {""}, raised : {""}]
        \cup [returncode : FailCodes, stderr : {"Invalid device: iPhone 16"}, raised : {""}]
        \cup [returncode : {0}, stderr : {""}, raised : PopenErrors]

\* How a call is entered in the command log.
Logged(cmd, op, key, r) ==
    [cmd |-> cmd, op |-> op, key |-> key,
     outcome |-> IF r.raised # "" THEN "OSError"
                 ELSE IF r.returncode = 0 THEN "ok" ELSE "nonzero"]

InitSave ==
    /\ script = "test_save_settings"
    /\ pc = "test_save_settings"
    /\ output = <<>>
    /\ exit_status = "running"
    /\ key_index = 1
    /\ commands = <<>>
    /\ userdefaults \in PriorDomains
    /\ verify_lines = <<>>
    /\ success = "none"
    /\ ApiIdle
    /\ UrlIdle
    /\ MonIdle

\* Lines 9-39: test_save_settings. The write of test_setting; the read-back
\* is in the branch of returncode == 0; whatever either call raises is printed
\* by the handler of line 38.
TestSaveSettings ==
    /\ pc = "test_save_settings"
    /\ \E w \in RunResults, r \in RunResults :
        LET write   == Logged(write_cmd("test_setting", "test_value"),
                              "write", "test_setting", w)
            read    == Logged(read_key_cmd("test_setting"), "read", "test_setting", r)
            written == DefaultsWrite(userdefaults, "test_setting", "test_value")
            stdout  == written[CHOOSE i \in 1..Len(written) :
                                   written[i][1] = "test_setting"][2] \o "\n"
            title   == <<"Testing UserDefaults Save Mechanism", Repeat("=", 40)>>
        IN  IF w.raised # ""
            THEN /\ commands' = Append(commands, write)
                 /\ output' = output \o title \o <<"Error: " \o w.raised>>
                 /\ UNCHANGED userdefaults
            ELSE IF w.returncode # 0
            THEN /\ commands' = Append(commands, write)
                 /\ output' = output \o title
                        \o <<"Failed to save test setting: " \o w.stderr>>
                 /\ UNCHANGED userdefaults
            ELSE /\ commands' = commands \o <<write, read>>
                 /\ userdefaults' = written
                 /\ output' = output \o title
                        \o <<"Successfully saved test setting">>
                        \o << IF r.raised # "" THEN "Error: " \o r.raised
                              ELSE IF r.returncode = 0
                              THEN "Successfully read back: " \o Strip(stdout)
                              ELSE "Failed to read back: " \o r.stderr >>
    /\ pc' = "save_netsuite_settings"
    /\ UNCHANGED <<script, exit_status, key_index, verify_lines, success>>
    /\ UNCHANGED notCredsVars

\* Lines 61-66: what one iteration of the loop prints.
SavePrints(key, r) ==
    IF r.raised # "" THEN "Error saving " \o key \o ": " \o r.raised
    ELSE IF r.returncode = 0 THEN "Saved " \o key
    ELSE "Failed to save " \o key \o ": " \o r.stderr

\* Mutant of SaveSetting: the loop is left at the first write that fails or
\* raises, as the loop of set_netsuite_credentials.py is.
SaveSettingStopsAtFailure ==
    /\ pc = "save_netsuite_settings"
    /\ key_index <= Len(settings)
    /\ \E r \in RunResults :
        LET key   == settings[key_index][1]
            value == settings[key_index][2]
        IN  /\ commands' = Append(commands,
                  Logged(write_cmd(key, value), "write", key, r))
            /\ userdefaults' =
                  IF r.raised = "" /\ r.returncode = 0
                  THEN DefaultsWrite(userdefaults, key, value)
                  ELSE userdefaults
            /\ output' = output
                  \o (IF key_index = 1
                      THEN <<"Manually Saving NetSuite Settings", Repeat("=", 40)>>
                      ELSE <<>>)
                  \o <<SavePrints(key, r)>>
            /\ key_index' = IF r.raised = "" /\ r.returncode = 0
                            THEN key_index + 1
                            ELSE Len(settings) + 1
    /\ UNCHANGED <<script, pc, exit_status, verify_lines, success>>
    /\ UNCHANGED notCredsVars

\* Lines 41-66: one iteration of `for key, value in settings.items()` (the
\* first one after the title of lines 43-44). The try statement is inside the
\* loop, so the next iteration follows whatever the write did.
SaveSetting ==
    /\ pc = "save_netsuite_settings"
    /\ key_index <= Len(settings)
    /\ \E r \in RunResults :
        LET key   == settings[key_index][1]
            value == settings[key_index][2]
        IN  /\ commands' = Append(commands,
                  Logged(write_cmd(key, value), "write", key, r))
            /\ userdefaults' =
                  IF r.raised = "" /\ r.returncode = 0
                  THEN DefaultsWrite(userdefaults, key, value)
                  ELSE userdefaults
            /\ output' = output
                  \o (IF key_index = 1
                      THEN <<"Manually Saving NetSuite Settings", Repeat("=", 40)>>
                      ELSE <<>>)
                  \o <<SavePrints(key, r)>>
    /\ key_index' = key_index + 1
    /\ UNCHANGED <<script, pc, exit_status, verify_lines, success>>
    /\ UNCHANGED notCredsVars

\* Lines 72-87: the loop is over; main reads the whole domain, prints what it
\* got and the script ends. `defaults read` exits 0 only for a domain that
\* exists, that is, one that holds a key.
SaveMainCheck ==
    /\ pc = "save_netsuite_settings"
    /\ key_index > Len(settings)
    /\ \E r \in RunResults :
        /\ (r.raised = "" /\ r.returncode = 0) => userdefaults # <<>>
        /\ commands' = Append(commands, Logged(verify_cmd, "read", "", r))
        /\ output' = output \o <<"Now checking if settings were saved...">>
              \o (IF r.raised # ""
                  THEN <<"Error reading UserDefaults: " \o r.raised>>
                  ELSE IF r.returncode = 0
                  THEN <<"UserDefaults domain exists!", "Contents:">>
                          \o DefaultsReadLines(userdefaults)
                  ELSE <<"UserDefaults domain still doesn't exist: " \o r.stderr>>)
    /\ pc' = "exited"
    /\ exit_status' = "0"
    /\ UNCHANGED <<script, key_index, userdefaults, verify_lines, success>>
    /\ UNCHANGED notCredsVars

NextSave ==
    \/ TestSaveSettings
    \/ SaveSetting
    \/ SaveMainCheck

SpecSave == InitSave /\ [][NextSave]_vars

\* Every call the script makes returns or raises: the script keeps stepping.
FairSpecSave == SpecSave /\ WF_vars(NextSave)

\* The keys of the writes of save_netsuite_settings issued so far, in order.
SettingWriteKeys ==
    LET ws == SelectSeq(commands,
                  LAMBDA c : c.op = "write" /\ c.key # "test_setting")
    IN  [i \in 1..Len(ws) |-> ws[i].key]

\* The positions of the command log that read the whole domain.
DomainReads == {i \in 1..Len(commands) : commands[i].cmd = verify_cmd}

\* C17: test_save_settings reads test_setting back only right after its write
\* returned exit code 0; save_netsuite_settings issues the writes of its four
\* keys one after the other whatever the earlier writes did, so all four have
\* been attempted when its loop is over; and main reads the whole domain once,
\* after both functions and as its last command, in every run.
C17_ReadBackGatedWritesAndFinalReadUnconditional ==
    /\ [](\A i \in 1..Len(commands) :
            commands[i].cmd = read_key_cmd("test_setting") =>
                /\ i = 2
                /\ commands[1].cmd = write_cmd("test_setting", "test_value")
                /\ commands[1].outcome = "ok")
    /\ [](/\ Len(SettingWriteKeys) = IF pc = "test_save_settings" THEN 0
                                     ELSE key_index - 1
          /\ \A i \in 1..Len(SettingWriteKeys) :
                SettingWriteKeys[i] = settings[i][1])
    /\ [](DomainReads # {} =>
            /\ DomainReads = {Len(commands)}
            /\ Len(SettingWriteKeys) = Len(settings)
            /\ pc = "exited")
    /\ <>[](pc = "exited" /\ DomainReads # {})

\* The write of test_setting returned 0 and was read back, the first write of
\* save_netsuite_settings raised, the second exited non-zero, the other two
\* were still issued, and main has read the domain.
C17_Witness ==
    /\ script = "test_save_settings"
    /\ Len(commands) = 7
    /\ commands[1].outcome = "ok"
    /\ commands[2].cmd = read_key_cmd("test_setting")
    /\ commands[3].outcome = "OSError"
    /\ commands[4].outcome = "nonzero"
    /\ commands[5].key = "netsuite_account_id"
    /\ commands[6].key = "netsuite_redirect_uri"
    /\ commands[7].cmd = verify_cmd
    /\ pc = "exited"

=============================================================================
